---- MODULE Spec2Model ----
(***************************************************************************)
(* Model of the GitHub -> Discord relay: the webhook request threads       *)
(* (flask_app/webhook.py, handlers/github_handlers.py), the persistence    *)
(* object (persistence/data_persistence.py), and the bot's run-loop with   *)
(* send_or_edit and the administrative commands (bot/discord_bot.py,       *)
(* bot/commands.py).                                                       *)
(*                                                                         *)
(* Python values are tagged records [t, v]; a Python string is a sequence  *)
(* of tokens so that f-string concatenation and str.split(':') are         *)
(* computed, not assumed.  A dict is a function whose DOMAIN is the set of *)
(* keys that are present.                                                  *)
(***************************************************************************)
EXTENDS Integers, Sequences, FiniteSets, TLC

(***************************************************************************)
(* Bounds                                                                  *)
(***************************************************************************)
MaxEvents == 2
MaxThreads == 2
MaxCommands == 1
MaxDeletes == 1
MaxFailures == 1

(***************************************************************************)
(* Python / JSON values                                                    *)
(***************************************************************************)
Str(s) == [t |-> "str", v |-> s]
Num(n) == [t |-> "num", v |-> n]
Bool(b) == [t |-> "bool", v |-> b]
None == [t |-> "null", v |-> 0]
Dict(f) == [t |-> "obj", v |-> f]
List(l) == [t |-> "list", v |-> l]
EmptyDict == Dict(<<>>)

IsDict(x) == x.t = "obj"

\* dict.get(field, default); the caller checks IsDict(d) first, since
\* .get on None raises AttributeError.
Get(d, field, default) ==
    IF field \in DOMAIN d.v THEN d.v[field] ELSE default

\* Python truthiness of a value.
Truthy(x) ==
    CASE x.t = "null" -> FALSE
      [] x.t = "bool" -> x.v
      [] x.t = "num" -> x.v # 0
      [] x.t = "str" -> x.v # <<>>
      [] x.t = "list" -> x.v # <<>>
      [] x.t = "obj" -> DOMAIN x.v # {}

\* str(x) / f"{x}": the tokens of the formatted value.
Format(x) ==
    CASE x.t = "str" -> x.v
      [] x.t = "num" -> <<ToString(x.v)>>
      [] x.t = "null" -> <<"None">>
      [] x.t = "bool" -> IF x.v THEN <<"True">> ELSE <<"False">>
      [] x.t = "list" -> <<"[..]">>
      [] x.t = "obj" -> <<"{..}">>

Colon == <<":">>

\* key.split(':')[0]: the tokens before the first ':'.
RECURSIVE SplitHead(_)
SplitHead(s) ==
    IF s = <<>> \/ Head(s) = ":" THEN <<>>
    ELSE <<Head(s)>> \o SplitHead(Tail(s))

(***************************************************************************)
(* Handlers: each returns the writes it performs in order (every write is  *)
(* update_data_store(key, value) followed by scheduling                    *)
(* send_or_edit(key, handler_name)) and whether it then raises.            *)
(***************************************************************************)
Write(key, value, name) == [key |-> key, value |-> value, handler_name |-> name]
Result(writes, raises) == [writes |-> writes, raises |-> raises]
Raises == Result(<<>>, TRUE)

UnknownRepo == Str(<<"unknown/unknown">>)

\* payload.get("repository", {}).get("full_name", "unknown/unknown")
RepoOk(payload) == IsDict(Get(payload, "repository", EmptyDict))
RepoFullName(payload) ==
    Get(Get(payload, "repository", EmptyDict), "full_name", UnknownRepo)

RECURSIVE PushCommits(_, _)
PushCommits(commits, repo_full_name) ==
    IF commits = <<>> THEN Result(<<>>, FALSE)
    ELSE LET commit == Head(commits) IN
         IF ~IsDict(commit) THEN Raises
         ELSE LET sha == Get(commit, "id", Str(<<>>))
                  key == <<"push">> \o Colon \o Format(sha)
                  commit_data == Dict(
                      "message" :> Get(commit, "message", Str(<<>>)) @@
                      "url" :> Get(commit, "url", Str(<<"#">>)) @@
                      "repo_full_name" :> repo_full_name)
                  rest == PushCommits(Tail(commits), repo_full_name)
              IN Result(<<Write(key, commit_data, "push")>> \o rest.writes,
                        rest.raises)

handle_push(payload) ==
    LET commits == Get(payload, "commits", List(<<>>)) IN
    IF ~RepoOk(payload) THEN Raises
    ELSE IF commits.t # "list" THEN
         \* iterating None, a number or a bool raises TypeError; an empty
         \* dict or string iterates nothing; a non-empty one yields strings
         \* and commit.get raises on the first
         IF commits.t \in {"obj", "str"} /\ ~Truthy(commits)
         THEN Result(<<>>, FALSE)
         ELSE Raises
    ELSE PushCommits(commits.v, RepoFullName(payload))

\* The key and record handle_check_run builds, and the write it does with them.
CheckRunWrite(check_run, payload) ==
    LET run_id == Format(Get(check_run, "id", Str(<<"unknown">>)))
        key == <<"check_run">> \o Colon \o run_id
        check_run_data == Dict(
            "name" :> Get(check_run, "name", Str(<<"Unnamed Check">>)) @@
            "url" :> Get(check_run, "html_url", Str(<<"#">>)) @@
            "status" :> Get(check_run, "status", Str(<<"unknown">>)) @@
            "conclusion" :> Get(check_run, "conclusion", Str(<<"unknown">>)) @@
            "head_sha" :> Get(check_run, "head_sha", Str(<<"unknown">>)) @@
            "repo_full_name" :> RepoFullName(payload))
    IN Write(key, check_run_data, "check_run")

\* Variant: a payload without a check_run object is dropped.
handle_check_run_strict(payload) ==
    IF "check_run" \notin DOMAIN payload.v THEN Result(<<>>, FALSE)
    ELSE LET check_run == Get(payload, "check_run", EmptyDict) IN
         IF ~IsDict(check_run) \/ ~RepoOk(payload) THEN Raises
         ELSE Result(<<CheckRunWrite(check_run, payload)>>, FALSE)

handle_check_run(payload) ==
    LET check_run == Get(payload, "check_run", EmptyDict) IN
    IF ~IsDict(check_run) \/ ~RepoOk(payload) THEN Raises
    ELSE Result(<<CheckRunWrite(check_run, payload)>>, FALSE)

\* handle_workflow_run after its filter: the key, the record and the write.
WorkflowRunResult(workflow_run) ==
    IF ~IsDict(workflow_run) THEN Raises
    ELSE IF ~IsDict(Get(workflow_run, "repository", EmptyDict)) THEN Raises
    ELSE LET run_id == Format(Get(workflow_run, "id", Str(<<"unknown">>)))
             key == <<"workflow_run">> \o Colon \o run_id
             workflow_run_data == Dict(
                 "name" :> Get(workflow_run, "name", Str(<<"Unnamed Workflow">>)) @@
                 "status" :> Get(workflow_run, "status", Str(<<"unknown">>)) @@
                 "conclusion" :> Get(workflow_run, "conclusion", Str(<<"unknown">>)) @@
                 "url" :> Get(workflow_run, "html_url", Str(<<"#">>)) @@
                 "started_at" :> Get(workflow_run, "started_at", Str(<<>>)) @@
                 "completed_at" :> Get(workflow_run, "completed_at", Str(<<>>)) @@
                 "head_sha" :> Get(workflow_run, "head_sha", Str(<<"unknown">>)) @@
                 "repo_full_name" :>
                     Get(Get(workflow_run, "repository", EmptyDict),
                         "full_name", UnknownRepo))
         IN Result(<<Write(key, workflow_run_data, "workflow_run")>>, FALSE)

\* Variant: every workflow_run event is processed, whatever its action.
handle_workflow_run_unfiltered(payload) ==
    WorkflowRunResult(Get(payload, "workflow_run", EmptyDict))

handle_workflow_run(payload) ==
    LET workflow_run == Get(payload, "workflow_run", EmptyDict)
        action == Get(payload, "action", Str(<<>>))
    IN
    IF action # Str(<<"completed">>) THEN Result(<<>>, FALSE)
    ELSE WorkflowRunResult(workflow_run)

handle_pull_request(payload) ==
    LET pr == Get(payload, "pull_request", EmptyDict) IN
    IF ~IsDict(pr) \/ ~RepoOk(payload) THEN Raises
    ELSE LET pr_number == Get(pr, "number", Num(0))
             key == <<"pull_request">> \o Colon \o Format(pr_number)
             pr_data == Dict(
                 "title" :> Get(pr, "title", Str(<<>>)) @@
                 "url" :> Get(pr, "html_url", Str(<<"#">>)) @@
                 "action" :> Get(payload, "action", Str(<<"unknown">>)) @@
                 "merged" :> Get(pr, "merged", Bool(FALSE)) @@
                 "repo_full_name" :> RepoFullName(payload))
         IN Result(<<Write(key, pr_data, "pull_request")>>, FALSE)

handle_issues(payload) ==
    LET issue == Get(payload, "issue", EmptyDict) IN
    IF ~IsDict(issue) \/ ~RepoOk(payload) THEN Raises
    ELSE LET action == Get(payload, "action", Str(<<"unknown">>))
             issue_number == Get(issue, "number", Num(0))
             key == <<"issue">> \o Colon \o Format(issue_number)
                        \o Colon \o Format(action)
             issue_data == Dict(
                 "title" :> Get(issue, "title", Str(<<>>)) @@
                 "url" :> Get(issue, "html_url", Str(<<"#">>)) @@
                 "action" :> action @@
                 "repo_full_name" :> RepoFullName(payload))
         IN Result(<<Write(key, issue_data, "issues")>>, FALSE)

\* d.get(field, {}) and whether .get can then be called on it
Sub(d, field) == Get(d, field, EmptyDict)
SubOk(d, field) == IsDict(Sub(d, field))

\* d.get(field, {}).get("login", "unknown")
Login(d, field) == Get(Sub(d, field), "login", Str(<<"unknown">>))

handle_check_suite(payload) ==
    LET check_suite == Sub(payload, "check_suite") IN
    IF ~IsDict(check_suite) \/ ~SubOk(check_suite, "repository") THEN Raises
    ELSE LET suite_id == Format(Get(check_suite, "id", Str(<<"unknown">>)))
             key == <<"check_suite">> \o Colon \o suite_id
             check_suite_data == Dict(
                 "name" :> Get(check_suite, "name", Str(<<"Unnamed Check Suite">>)) @@
                 "url" :> Get(check_suite, "html_url", Str(<<"#">>)) @@
                 "status" :> Get(check_suite, "status", Str(<<"unknown">>)) @@
                 "conclusion" :> Get(check_suite, "conclusion", Str(<<"unknown">>)) @@
                 "head_sha" :> Get(check_suite, "head_sha", Str(<<"unknown">>)) @@
                 "repo_full_name" :>
                     Get(Sub(check_suite, "repository"), "full_name", UnknownRepo))
         IN Result(<<Write(key, check_suite_data, "check_suite")>>, FALSE)

handle_workflow_job(payload) ==
    LET workflow_job == Sub(payload, "workflow_job") IN
    IF ~IsDict(workflow_job) \/ ~SubOk(workflow_job, "repository") THEN Raises
    ELSE LET job_id == Format(Get(workflow_job, "id", Str(<<"unknown">>)))
             key == <<"workflow_job">> \o Colon \o job_id
             workflow_job_data == Dict(
                 "name" :> Get(workflow_job, "name", Str(<<"Unnamed Workflow Job">>)) @@
                 "url" :> Get(workflow_job, "html_url", Str(<<"#">>)) @@
                 "status" :> Get(workflow_job, "status", Str(<<"unknown">>)) @@
                 "conclusion" :> Get(workflow_job, "conclusion", Str(<<"unknown">>)) @@
                 "head_sha" :> Get(workflow_job, "head_sha", Str(<<"unknown">>)) @@
                 "repo_full_name" :>
                     Get(Sub(workflow_job, "repository"), "full_name", UnknownRepo))
         IN Result(<<Write(key, workflow_job_data, "workflow_job")>>, FALSE)

handle_pull_request_review(payload) ==
    LET review == Sub(payload, "review")
        pr == Sub(payload, "pull_request")
    IN
    IF ~IsDict(review) \/ ~IsDict(pr) \/ ~SubOk(review, "user")
       \/ ~RepoOk(payload) THEN Raises
    ELSE LET pr_number == Get(pr, "number", Num(0))
             reviewer == Login(review, "user")
             url == Get(review, "html_url", Str(<<"#">>))
             key == <<"pull_request_review">> \o Colon \o Format(pr_number)
                        \o Colon \o Format(reviewer) \o Colon \o Format(url)
             review_data == Dict(
                 "user" :> reviewer @@
                 "url" :> url @@
                 "action" :> Get(review, "state", Str(<<"commented">>)) @@
                 "body" :> Get(review, "body", Str(<<>>)) @@
                 "repo_full_name" :> RepoFullName(payload))
         IN Result(<<Write(key, review_data, "pull_request_review")>>, FALSE)

handle_pull_request_review_comment(payload) ==
    LET comment == Sub(payload, "comment")
        pr == Sub(payload, "pull_request")
    IN
    IF ~IsDict(comment) \/ ~IsDict(pr) \/ ~SubOk(comment, "user")
       \/ ~RepoOk(payload) THEN Raises
    ELSE LET pr_number == Get(pr, "number", Num(0))
             commenter == Login(comment, "user")
             comment_url == Get(comment, "html_url", Str(<<"#">>))
             key == <<"pull_request_review_comment">> \o Colon
                        \o Format(pr_number) \o Colon \o Format(commenter)
                        \o Colon \o Format(comment_url)
             comment_data == Dict(
                 "user" :> commenter @@
                 "url" :> comment_url @@
                 "body" :> Get(comment, "body", Str(<<>>)) @@
                 "repo_full_name" :> RepoFullName(payload))
         IN Result(<<Write(key, comment_data, "pull_request_review_comment")>>,
                   FALSE)

handle_issue_comment(payload) ==
    LET comment == Sub(payload, "comment")
        issue == Sub(payload, "issue")
    IN
    IF ~IsDict(comment) \/ ~IsDict(issue) \/ ~SubOk(comment, "user")
       \/ ~RepoOk(payload) THEN Raises
    ELSE LET issue_number == Get(issue, "number", Num(0))
             commenter == Login(comment, "user")
             comment_url == Get(comment, "html_url", Str(<<"#">>))
             key == <<"issue_comment">> \o Colon \o Format(issue_number)
                        \o Colon \o Format(commenter) \o Colon
                        \o Format(comment_url)
             comment_data == Dict(
                 "user" :> commenter @@
                 "url" :> comment_url @@
                 "body" :> Get(comment, "body", Str(<<>>)) @@
                 "repo_full_name" :> RepoFullName(payload))
         IN Result(<<Write(key, comment_data, "issue_comment")>>, FALSE)

\* sender_info.get("login") if sender_info else payload.get("user", "unknown")
Sender(payload) ==
    LET sender_info == Sub(payload, "sender") IN
    IF Truthy(sender_info) THEN Get(sender_info, "login", None)
    ELSE Get(payload, "user", Str(<<"unknown">>))

\* a truthy sender that is no dict has no .get
SenderOk(payload) ==
    LET sender_info == Sub(payload, "sender") IN
    Truthy(sender_info) => IsDict(sender_info)

\* the ref_url stored: "" when ref_type is neither "branch" nor "tag"
RefUrl(ref_type, ref, repo_full_name) ==
    IF ref_type = Str(<<"branch">>)
    THEN Str(<<"https://github.com/">> \o Format(repo_full_name)
                 \o <<"/tree/">> \o Format(ref))
    ELSE IF ref_type = Str(<<"tag">>)
    THEN Str(<<"https://github.com/">> \o Format(repo_full_name)
                 \o <<"/releases/tag/">> \o Format(ref))
    ELSE Str(<<>>)

RefEvent(payload, name) ==
    IF ~SenderOk(payload) \/ ~RepoOk(payload) THEN Raises
    ELSE LET ref_type == Get(payload, "ref_type", Str(<<"unknown">>))
             ref == Get(payload, "ref", Str(<<"unknown">>))
             key == <<name>> \o Colon \o Format(ref)
             data == Dict(
                 "ref_type" :> ref_type @@
                 "ref" :> ref @@
                 "user" :> Sender(payload) @@
                 "ref_url" :> RefUrl(ref_type, ref, RepoFullName(payload)) @@
                 "repo_full_name" :> RepoFullName(payload))
         IN Result(<<Write(key, data, name)>>, FALSE)

handle_create(payload) == RefEvent(payload, "create")

handle_delete(payload) == RefEvent(payload, "delete")

handle_fork(payload) ==
    LET forkee == Sub(payload, "forkee") IN
    IF ~SubOk(payload, "sender") \/ ~RepoOk(payload) \/ ~IsDict(forkee)
    THEN Raises
    ELSE LET forkee_name == Get(forkee, "full_name", Str(<<"unknown">>))
             key == <<"fork">> \o Colon \o Format(forkee_name)
             fork_data == Dict(
                 "sender" :> Login(payload, "sender") @@
                 "repo_name" :> RepoFullName(payload) @@
                 "forkee_name" :> forkee_name @@
                 "forkee_url" :> Get(forkee, "html_url", Str(<<"#">>)) @@
                 "repo_full_name" :> RepoFullName(payload))
         IN Result(<<Write(key, fork_data, "fork")>>, FALSE)

handle_release(payload) ==
    LET release == Sub(payload, "release") IN
    IF ~IsDict(release) \/ ~SubOk(payload, "sender") \/ ~RepoOk(payload)
    THEN Raises
    ELSE LET name == Get(release, "name", Str(<<"No Name">>))
             key == <<"release">> \o Colon \o Format(name)
             release_data == Dict(
                 "action" :> Get(payload, "action", Str(<<"unknown">>)) @@
                 "name" :> name @@
                 "url" :> Get(release, "html_url", Str(<<"#">>)) @@
                 "publisher" :> Login(payload, "sender") @@
                 "repo_full_name" :> RepoFullName(payload))
         IN Result(<<Write(key, release_data, "release")>>, FALSE)

handle_repository(payload) ==
    LET repo == Sub(payload, "repository") IN
    IF ~IsDict(repo) \/ ~SubOk(repo, "owner") THEN Raises
    ELSE LET repo_name == Get(repo, "full_name", UnknownRepo)
             key == <<"repository">> \o Colon \o Format(repo_name)
             repository_data == Dict(
                 "action" :> Get(payload, "action", Str(<<"unknown">>)) @@
                 "name" :> repo_name @@
                 "url" :> Get(repo, "html_url", Str(<<"#">>)) @@
                 "owner" :> Login(repo, "owner") @@
                 "repo_full_name" :> repo_name)
         IN Result(<<Write(key, repository_data, "repository")>>, FALSE)

handle_watch(payload) ==
    IF ~SubOk(payload, "sender") \/ ~RepoOk(payload) THEN Raises
    ELSE LET sender == Login(payload, "sender")
             repo_full_name == RepoFullName(payload)
             key == <<"watch">> \o Colon \o Format(sender) \o Colon
                        \o Format(repo_full_name)
             watch_data == Dict(
                 "action" :> Get(payload, "action", Str(<<"starred">>)) @@
                 "user" :> sender @@
                 "repo_name" :> repo_full_name @@
                 "repo_url" :> Get(Sub(payload, "repository"), "html_url",
                                   Str(<<"#">>)) @@
                 "repo_full_name" :> repo_full_name)
         IN Result(<<Write(key, watch_data, "watch")>>, FALSE)

handle_member(payload) ==
    LET member == Sub(payload, "member") IN
    IF ~IsDict(member) \/ ~RepoOk(payload) THEN Raises
    ELSE LET member_login == Get(member, "login", Str(<<"unknown">>))
             action == Get(payload, "action", Str(<<"unknown">>))
             repo_full_name == RepoFullName(payload)
             key == <<"member">> \o Colon \o Format(member_login) \o Colon
                        \o Format(repo_full_name) \o Colon \o Format(action)
             member_data == Dict(
                 "member_login" :> member_login @@
                 "action" :> action @@
                 "repo_full_name" :> repo_full_name @@
                 "repo_url" :> Get(Sub(payload, "repository"), "html_url",
                                   Str(<<"#">>)))
         IN Result(<<Write(key, member_data, "member")>>, FALSE)

handle_commit_comment(payload) ==
    LET comment == Sub(payload, "comment") IN
    IF ~IsDict(comment) \/ ~SubOk(comment, "user") \/ ~RepoOk(payload)
    THEN Raises
    ELSE LET commit_sha == Get(comment, "commit_id", Str(<<"unknown">>))
             commenter == Login(comment, "user")
             comment_url == Get(comment, "html_url", Str(<<"#">>))
             key == <<"commit_comment">> \o Colon \o Format(commit_sha)
                        \o Colon \o Format(commenter) \o Colon
                        \o Format(comment_url)
             commit_comment_data == Dict(
                 "commit_sha" :> commit_sha @@
                 "commenter" :> commenter @@
                 "url" :> comment_url @@
                 "body" :> Get(comment, "body", Str(<<>>)) @@
                 "repo_full_name" :> RepoFullName(payload))
         IN Result(<<Write(key, commit_comment_data, "commit_comment")>>, FALSE)

handle_public(payload) ==
    IF ~RepoOk(payload) \/ ~SubOk(payload, "sender") THEN Raises
    ELSE LET repo_full_name == RepoFullName(payload)
             key == <<"public">> \o Colon \o Format(repo_full_name)
             public_data == Dict(
                 "action" :> Get(payload, "action", Str(<<"made public">>)) @@
                 "repo_full_name" :> repo_full_name @@
                 "repo_url" :> Get(Sub(payload, "repository"), "html_url",
                                   Str(<<"#">>)) @@
                 "sender" :> Login(payload, "sender"))
         IN Result(<<Write(key, public_data, "public")>>, FALSE)

\* The keys of the dispatch table.
EVENT_HANDLERS ==
    {"push", "check_run", "check_suite", "workflow_run", "workflow_job",
     "pull_request", "pull_request_review", "pull_request_review_comment",
     "issues", "issue_comment", "create", "delete", "fork", "release", "watch",
     "member", "public", "repository", "commit_comment"}

\* The handler the dispatch table gives for an event type.
Dispatch(event_type, payload) ==
    CASE event_type = "push" -> handle_push(payload)
      [] event_type = "check_run" -> handle_check_run(payload)
      [] event_type = "check_suite" -> handle_check_suite(payload)
      [] event_type = "workflow_run" -> handle_workflow_run(payload)
      [] event_type = "workflow_job" -> handle_workflow_job(payload)
      [] event_type = "pull_request" -> handle_pull_request(payload)
      [] event_type = "pull_request_review" ->
             handle_pull_request_review(payload)
      [] event_type = "pull_request_review_comment" ->
             handle_pull_request_review_comment(payload)
      [] event_type = "issues" -> handle_issues(payload)
      [] event_type = "issue_comment" -> handle_issue_comment(payload)
      [] event_type = "create" -> handle_create(payload)
      [] event_type = "delete" -> handle_delete(payload)
      [] event_type = "fork" -> handle_fork(payload)
      [] event_type = "release" -> handle_release(payload)
      [] event_type = "watch" -> handle_watch(payload)
      [] event_type = "member" -> handle_member(payload)
      [] event_type = "public" -> handle_public(payload)
      [] event_type = "repository" -> handle_repository(payload)
      [] event_type = "commit_comment" -> handle_commit_comment(payload)

\* Variant of handle_event: an unknown event type goes to a fallback handler.
\* handle_event: look the handler up and call it; an unknown event type is
\* logged and nothing else happens.  There is no try/except here, so what
\* the handler raises, handle_event raises.
handle_event_fallback(event_type, payload) ==
    IF event_type \in EVENT_HANDLERS THEN Dispatch(event_type, payload)
    ELSE handle_check_run(payload)

handle_event(event_type, payload) ==
    IF event_type \in EVENT_HANDLERS THEN Dispatch(event_type, payload)
    ELSE Result(<<>>, FALSE)

(***************************************************************************)
(* Persistence (persistence/data_persistence.py)                           *)
(***************************************************************************)
Free == 0
Loop == MaxEvents + 1

HandlersKey == <<"handlers">>
NoMap == <<>>

\* dict[key] = value
Put(map, key, value) == (key :> value) @@ map

\* Variant: the store is replaced by the one record.
update_data_store_reset(data_store, key, value) == (key :> value)

\* Variant: an existing record is kept (dict.setdefault).
update_data_store_keep(data_store, key, value) ==
    IF key \in DOMAIN data_store THEN data_store ELSE Put(data_store, key, value)

\* update_data_store, the statement under data_lock: DATA_STORE[key] = value
update_data_store(data_store, key, value) == Put(data_store, key, value)

\* Variant: the map is replaced by the one entry.
update_message_map_only(message_map, key, message_id) == (key :> message_id)

\* Variant: the id of the message sent is not recorded.
update_message_map_lost(message_map, key, message_id) == message_map

\* Variant: an existing entry is kept (dict.setdefault).
update_message_map_keep(message_map, key, message_id) ==
    IF key \in DOMAIN message_map THEN message_map
    ELSE Put(message_map, key, message_id)

\* update_message_map, the statement under data_lock:
\* MESSAGE_MAP[key] = message_id
update_message_map(message_map, key, message_id) ==
    Put(message_map, key, message_id)

\* The document on disk: missing, malformed, or a JSON object.
MissingFile == [t |-> "missing", v |-> <<>>]
MalformedFile == [t |-> "malformed", v |-> <<>>]

\* Variant: only the records are written.
JsonDump_records(data_store, message_map) ==
    [t |-> "doc", v |-> ("DATA_STORE" :> data_store)]

\* json.dump({"DATA_STORE": ..., "MESSAGE_MAP": ...}, f): both maps, whole.
JsonDump(data_store, message_map) ==
    [t |-> "doc",
     v |-> ("DATA_STORE" :> data_store @@ "MESSAGE_MAP" :> message_map)]

\* Variant: the empty maps are not written back.
load_data_unsaved(f) ==
    IF f.t = "doc" THEN
        [DATA_STORE |->
            IF "DATA_STORE" \in DOMAIN f.v THEN f.v["DATA_STORE"] ELSE NoMap,
         MESSAGE_MAP |->
            IF "MESSAGE_MAP" \in DOMAIN f.v THEN f.v["MESSAGE_MAP"] ELSE NoMap,
         file |-> f]
    ELSE [DATA_STORE |-> NoMap, MESSAGE_MAP |-> NoMap, file |-> f]

\* load_data: the maps the process starts with and the document it leaves.
load_data(f) ==
    IF f.t = "doc" THEN
        [DATA_STORE |->
            IF "DATA_STORE" \in DOMAIN f.v THEN f.v["DATA_STORE"] ELSE NoMap,
         MESSAGE_MAP |->
            IF "MESSAGE_MAP" \in DOMAIN f.v THEN f.v["MESSAGE_MAP"] ELSE NoMap,
         file |-> f]
    ELSE
        \* FileNotFoundError / JSONDecodeError: empty maps, then save_data()
        [DATA_STORE |-> NoMap, MESSAGE_MAP |-> NoMap,
         file |-> JsonDump(NoMap, NoMap)]

(***************************************************************************)
(* Inputs                                                                  *)
(***************************************************************************)
DefaultChannel == 1
OtherChannel == DefaultChannel + 1
Channels == {DefaultChannel, OtherChannel}

HandlerConfig(enabled) == Dict("enabled" :> Bool(enabled))
HandlerConfigAt(enabled, channel_id) ==
    Dict("enabled" :> Bool(enabled) @@ "channel_id" :> Num(channel_id))

\* A routing table as an operator would have put it in the document.
RoutingTable ==
    Dict("pull_request" :> HandlerConfig(TRUE) @@
         "check_run" :> HandlerConfigAt(FALSE, OtherChannel) @@
         "push" :> HandlerConfigAt(TRUE, OtherChannel) @@
         "issues" :> HandlerConfig(TRUE) @@
         "workflow_run" :> HandlerConfig(TRUE))

RoutedFile == JsonDump(HandlersKey :> RoutingTable, NoMap)

InitFiles == {MissingFile, MalformedFile, RoutedFile}

Repo == Dict("full_name" :> Str(<<"o/r">>))

PullRequestPayload(action, title) ==
    Dict("action" :> Str(<<action>>) @@
         "pull_request" :> Dict("number" :> Num(42) @@
                                "title" :> Str(<<title>>) @@
                                "html_url" :> Str(<<"u">>)) @@
         "repository" :> Repo)

OtherRepo == Dict("full_name" :> Str(<<"o/s">>))

IssuesPayload(action) ==
    Dict("action" :> Str(<<action>>) @@
         "issue" :> Dict("number" :> Num(7) @@
                         "title" :> Str(<<"i">>) @@
                         "html_url" :> Str(<<"u7">>)) @@
         "repository" :> Repo)

\* GitHub sends action and status together: in_progress with in_progress,
\* completed with completed.
WorkflowRunPayload(action) ==
    Dict("action" :> Str(<<action>>) @@
         "workflow_run" :> Dict("id" :> Num(9) @@
                                "name" :> Str(<<"ci">>) @@
                                "status" :> Str(<<action>>) @@
                                "repository" :> Repo) @@
         "repository" :> Repo)

Commit(sha) == Dict("id" :> Str(<<sha>>) @@ "message" :> Str(<<"m">>))

PushPayload(commits) == Dict("commits" :> List(commits) @@ "repository" :> Repo)

Event(event_type, payload) == [event_type |-> event_type, payload |-> payload]

Events ==
    { Event("pull_request", PullRequestPayload("opened", "t1")),
      Event("pull_request", PullRequestPayload("closed", "t2")),
      Event("pull_request", Dict("action" :> Str(<<"opened">>) @@
                                 "repository" :> Repo)),
      Event("check_run", EmptyDict),
      Event("push", PushPayload(<<Commit("abc"), None>>)),
      Event("ping", EmptyDict) }

\* Events about entities: the same pull request number in two repositories,
\* one issue opened and closed, one workflow run in progress and completed.
EntityEvents ==
    { Event("pull_request", PullRequestPayload("opened", "t1")),
      Event("pull_request",
            Dict("action" :> Str(<<"opened">>) @@
                 "pull_request" :> Dict("number" :> Num(42) @@
                                        "title" :> Str(<<"t3">>) @@
                                        "html_url" :> Str(<<"v">>)) @@
                 "repository" :> OtherRepo)),
      Event("issues", IssuesPayload("opened")),
      Event("issues", IssuesPayload("closed")),
      Event("workflow_run", WorkflowRunPayload("in_progress")),
      Event("workflow_run", WorkflowRunPayload("completed")) }

\* Deliveries of pushes: two commits, and the first of them alone.
PushEvents ==
    { Event("push", PushPayload(<<Commit("abc"), Commit("def")>>)),
      Event("push", PushPayload(<<Commit("abc")>>)) }

(***************************************************************************)
(* State                                                                   *)
(***************************************************************************)
VARIABLES
    DATA_STORE,     \* DataPersistence.DATA_STORE: key -> value
    MESSAGE_MAP,    \* DataPersistence.MESSAGE_MAP: key -> message id
    file,           \* the document at DataPersistence.file_path
    data_lock,      \* holder of DataPersistence.data_lock (Free, a request, Loop)
    req,            \* the webhook requests in arrival order, each on a thread
                    \* of the server (at most MaxThreads at a time)
    queue,          \* coroutines submitted to bot.loop and not yet started
    tasks,          \* send_or_edit coroutines that have started
    loop,           \* what the run-loop thread is executing right now
    discord,        \* the messaging platform: the messages it holds
    budget          \* how many commands, deletions and failures remain

vars == <<DATA_STORE, MESSAGE_MAP, file, data_lock, req, queue, tasks, loop,
          discord, budget>>

Requests == 1..MaxEvents

IdleReq == [pc |-> "idle", event_type |-> "", payload |-> EmptyDict,
            writes |-> <<>>, raises |-> FALSE, raised |-> FALSE,
            status |-> 0]

NoCommand == [name |-> "", handler_name |-> "", channel_id |-> 0]

IdleLoop == [pc |-> "idle", task |-> 0, key |-> <<>>, value |-> 0,
             command |-> NoCommand]

Init ==
    /\ \E f \in InitFiles :
          LET loaded == load_data(f) IN
          /\ DATA_STORE = loaded.DATA_STORE
          /\ MESSAGE_MAP = loaded.MESSAGE_MAP
          /\ file = loaded.file
    /\ data_lock = Free
    /\ req = [i \in Requests |-> IdleReq]
    /\ queue = <<>>
    /\ tasks = <<>>
    /\ loop = IdleLoop
    /\ discord = <<>>
    /\ budget = [commands |-> MaxCommands, deletes |-> MaxDeletes,
                 write_failures |-> MaxFailures,
                 http_errors |-> MaxFailures]

\* What a failed open()/write leaves on disk: the old document (open failed)
\* or a truncated one (the write stopped half way).
FailedWrite(f) == {f, MalformedFile}

(***************************************************************************)
(* Webhook request threads (flask_app/webhook.py github_webhook, then      *)
(* GitHubHandlers.handle_event on the same thread)                         *)
(***************************************************************************)
\* Variant: no try/except around handle_event, the server answers 500.
github_webhook_uncaught(r, raised) ==
    [r EXCEPT !.pc = "responded", !.raised = raised,
              !.status = IF raised THEN 500 ELSE 200]

\* github_webhook after handle_event has returned or raised: an exception
\* is caught and logged, and the view returns "OK", 200 either way.
github_webhook(r, raised) ==
    [r EXCEPT !.pc = "responded", !.raised = raised, !.status = 200]

\* Where the request thread is once the writes done so far are done.
AfterWrites(r) ==
    IF r.writes # <<>> THEN [r EXCEPT !.pc = "update"]
    ELSE github_webhook(r, r.raises)

\* github_webhook up to the call of handle_event, and the handler's
\* extraction of its fields from the payload.
Receive(i, ev) ==
    /\ loop.pc \notin {"boot", "crashed"}
    /\ req[i].pc = "idle"
    /\ i > 1 => req[i - 1].pc # "idle"
    /\ Cardinality({j \in Requests : req[j].pc \notin {"idle", "responded"}})
          < MaxThreads
    /\ LET res == handle_event(ev.event_type, ev.payload)
           r == [req[i] EXCEPT !.event_type = ev.event_type,
                               !.payload = ev.payload,
                               !.writes = res.writes,
                               !.raises = res.raises]
       IN req' = [req EXCEPT ![i] = AfterWrites(r)]
    /\ UNCHANGED <<DATA_STORE, MESSAGE_MAP, file, data_lock, queue, tasks,
                   loop, discord, budget>>

\* update_data_store, first half: with data_lock: DATA_STORE[key] = value
ReqMutate(i) ==
    /\ req[i].pc = "update"
    /\ data_lock = Free
    /\ DATA_STORE' = update_data_store(DATA_STORE, Head(req[i].writes).key,
                                       Head(req[i].writes).value)
    /\ req' = [req EXCEPT ![i].pc = "save"]
    /\ UNCHANGED <<MESSAGE_MAP, file, data_lock, queue, tasks, loop, discord,
                   budget>>

\* save_data: take data_lock and write the document
ReqDump(i) ==
    /\ req[i].pc = "save"
    /\ data_lock = Free
    /\ data_lock' = i
    /\ file' = JsonDump(DATA_STORE, MESSAGE_MAP)
    /\ req' = [req EXCEPT ![i].pc = "dumped"]
    /\ UNCHANGED <<DATA_STORE, MESSAGE_MAP, queue, tasks, loop, discord,
                   budget>>

\* Variant: save_data catches and logs the error and update_data_store
\* returns normally.
ReqDumpFail_absorbed(i) ==
    /\ req[i].pc = "save"
    /\ data_lock = Free
    /\ budget.write_failures > 0
    /\ budget' = [budget EXCEPT !.write_failures = @ - 1]
    /\ file' \in FailedWrite(file)
    /\ req' = [req EXCEPT ![i].pc = "updated"]
    /\ UNCHANGED <<DATA_STORE, MESSAGE_MAP, data_lock, queue, tasks, loop,
                   discord>>

\* save_data raising OSError: the with-block releases data_lock and the
\* exception leaves update_data_store, the handler and handle_event.
ReqDumpFail(i) ==
    /\ req[i].pc = "save"
    /\ data_lock = Free
    /\ budget.write_failures > 0
    /\ budget' = [budget EXCEPT !.write_failures = @ - 1]
    /\ file' \in FailedWrite(file)
    /\ req' = [req EXCEPT ![i] = github_webhook(@, TRUE)]
    /\ UNCHANGED <<DATA_STORE, MESSAGE_MAP, data_lock, queue, tasks, loop,
                   discord>>

\* save_data leaves its with-block; update_data_store returns
ReqRelease(i) ==
    /\ req[i].pc = "dumped"
    /\ data_lock = i
    /\ data_lock' = Free
    /\ req' = [req EXCEPT ![i].pc = "updated"]
    /\ UNCHANGED <<DATA_STORE, MESSAGE_MAP, file, queue, tasks, loop, discord,
                   budget>>

\* Variant: the request thread hands over only once the run-loop has
\* finished what was submitted before (it waits on the earlier futures).
ReqSchedule_wait(i) ==
    /\ req[i].pc = "updated"
    /\ queue = <<>>
    /\ loop.pc = "idle"
    /\ queue' = Append(queue, [key |-> Head(req[i].writes).key,
                               handler_name |-> Head(req[i].writes).handler_name])
    /\ req' = [req EXCEPT ![i] = AfterWrites([@ EXCEPT !.writes = Tail(@)])]
    /\ UNCHANGED <<DATA_STORE, MESSAGE_MAP, file, data_lock, tasks, loop,
                   discord, budget>>

\* asyncio.run_coroutine_threadsafe(send_or_edit(key, handler_name), loop)
ReqSchedule(i) ==
    /\ req[i].pc = "updated"
    /\ queue' = Append(queue, [key |-> Head(req[i].writes).key,
                               handler_name |-> Head(req[i].writes).handler_name])
    /\ req' = [req EXCEPT ![i] = AfterWrites([@ EXCEPT !.writes = Tail(@)])]
    /\ UNCHANGED <<DATA_STORE, MESSAGE_MAP, file, data_lock, tasks, loop,
                   discord, budget>>

(***************************************************************************)
(* The run-loop thread: send_or_edit (bot/discord_bot.py)                  *)
(***************************************************************************)
\* Variant: a store without routing table is read as the operator's table.
Handlers_default(data_store) ==
    IF HandlersKey \in DOMAIN data_store THEN data_store[HandlersKey]
    ELSE RoutingTable

\* self.data_persistence.get_data_store().get("handlers", {})
Handlers(data_store) ==
    IF HandlersKey \in DOMAIN data_store THEN data_store[HandlersKey]
    ELSE EmptyDict

\* handler = key.split(':')[0], as the name looked up in the routing table
HandlerOf(key) ==
    LET head == SplitHead(key) IN
    IF Len(head) = 1 THEN head[1] ELSE ""

\* handlers.get(handler, {})
HandlerConfigOf(data_store, key) ==
    Get(Handlers(data_store), HandlerOf(key), EmptyDict)

\* Variant: the enabled flag is not consulted.
IsEnabled_ignored(handler_config) == TRUE

\* handler_config.get("enabled", False), as the if-statement tests it
IsEnabled(handler_config) ==
    Truthy(Get(handler_config, "enabled", Bool(FALSE)))

\* Variant: every category goes to the default channel.
ChannelId_default(handler_config) == Num(DefaultChannel)

\* handler_config.get("channel_id", DEFAULT_DISCORD_CHANNEL_ID)
ChannelId(handler_config) ==
    Get(handler_config, "channel_id", Num(DefaultChannel))

\* self.bot.get_channel(channel_id): 0 stands for None
GetChannel(channel_id) ==
    IF channel_id.t = "num" /\ channel_id.v \in Channels THEN channel_id.v
    ELSE 0

\* build_embed(key, data, handler_name): a pure function of its arguments,
\* kept as those arguments
build_embed(key, data, handler_name) ==
    [key |-> key, data |-> data, handler_name |-> handler_name]

\* Variant: the record is not read back from the store.
DataOf_blank(data_store, key) == EmptyDict

\* self.data_persistence.get_data_store().get(key, {})
DataOf(data_store, key) ==
    IF key \in DOMAIN data_store THEN data_store[key] ELSE EmptyDict

NewTask(item) ==
    [key |-> item.key, handler_name |-> item.handler_name, pc |-> "start",
     channel |-> 0, embed |-> build_embed(<<>>, EmptyDict, ""),
     message_id |-> 0, new_id |-> 0, calls |-> <<>>]

\* send_or_edit from its first line to its first await (lines 53-79/89):
\* the state the coroutine is in when it yields or returns.
Started(task, data_store, message_map) ==
    LET key == task.key
        handler_config == HandlerConfigOf(data_store, key)
        embed == build_embed(key, DataOf(data_store, key), task.handler_name)
        channel == GetChannel(ChannelId(handler_config))
    IN
    IF ~IsEnabled(handler_config) THEN [task EXCEPT !.pc = "disabled"]
    ELSE IF channel = 0 THEN
        [task EXCEPT !.pc = "no_channel", !.embed = embed]
    ELSE IF key \in DOMAIN message_map THEN
        [task EXCEPT !.pc = "fetch", !.embed = embed, !.channel = channel,
                     !.message_id = message_map[key], !.calls = <<"fetch">>]
    ELSE
        [task EXCEPT !.pc = "send", !.embed = embed, !.channel = channel,
                     !.calls = <<"send">>]

\* except discord.NotFound: new_msg = await channel.send(embed=embed)
AfterNotFound(task) ==
    [task EXCEPT !.pc = "send", !.calls = Append(@, "send")]

\* Variant: a failed call is answered with a fresh send.
AfterError_resend(task) ==
    [task EXCEPT !.pc = "send", !.calls = Append(@, "send")]

\* except discord.HTTPException / except Exception: log and fall off the end
AfterError(task) == [task EXCEPT !.pc = "http_error"]

\* Variant: the message fetched is replaced by a new one.
AfterFetch_replace(task) ==
    [task EXCEPT !.pc = "send", !.calls = Append(@, "send")]

\* old_msg = await channel.fetch_message(message_id) succeeded:
\* await old_msg.edit(embed=embed)
AfterFetch(task) ==
    [task EXCEPT !.pc = "edit", !.calls = Append(@, "edit")]

\* The platform finds the message only in the channel it was sent to.
Found(d, channel, message_id) ==
    /\ message_id \in DOMAIN d
    /\ d[message_id].live
    /\ d[message_id].channel = channel

\* Variant: get_message_map's with-block reaches over the first await, so the
\* coroutine suspends with data_lock taken.
StartTask_locked ==
    /\ loop.pc = "idle"
    /\ queue # <<>>
    /\ data_lock = Free
    /\ tasks' = Append(tasks, Started(NewTask(Head(queue)), DATA_STORE,
                                      MESSAGE_MAP))
    /\ data_lock' = IF tasks'[Len(tasks')].pc \in {"fetch", "send"}
                    THEN Loop ELSE Free
    /\ queue' = Tail(queue)
    /\ UNCHANGED <<DATA_STORE, MESSAGE_MAP, file, req, loop, discord, budget>>

\* The run-loop picks the next submitted coroutine and runs it to its first
\* await; get_data_store and get_message_map each take data_lock.
StartTask ==
    /\ loop.pc = "idle"
    /\ queue # <<>>
    /\ data_lock = Free
    /\ tasks' = Append(tasks, Started(NewTask(Head(queue)), DATA_STORE,
                                      MESSAGE_MAP))
    /\ queue' = Tail(queue)
    /\ UNCHANGED <<DATA_STORE, MESSAGE_MAP, file, data_lock, req, loop,
                   discord, budget>>

HttpError(c) ==
    /\ budget.http_errors > 0
    /\ budget' = [budget EXCEPT !.http_errors = @ - 1]
    /\ tasks' = [tasks EXCEPT ![c] = AfterError(@)]
    /\ UNCHANGED <<DATA_STORE, MESSAGE_MAP, file, data_lock, req, queue, loop,
                   discord>>

\* await channel.fetch_message(message_id) completes
FetchDone(c) ==
    /\ loop.pc = "idle"
    /\ tasks[c].pc = "fetch"
    /\ \/ /\ Found(discord, tasks[c].channel, tasks[c].message_id)
          /\ tasks' = [tasks EXCEPT ![c] = AfterFetch(@)]
          /\ UNCHANGED <<DATA_STORE, MESSAGE_MAP, file, data_lock, req, queue,
                         loop, discord, budget>>
       \/ /\ ~Found(discord, tasks[c].channel, tasks[c].message_id)
          /\ tasks' = [tasks EXCEPT ![c] = AfterNotFound(@)]
          /\ UNCHANGED <<DATA_STORE, MESSAGE_MAP, file, data_lock, req, queue,
                         loop, discord, budget>>
       \/ HttpError(c)

\* await old_msg.edit(embed=embed) completes
EditDone(c) ==
    /\ loop.pc = "idle"
    /\ tasks[c].pc = "edit"
    /\ \/ /\ Found(discord, tasks[c].channel, tasks[c].message_id)
          /\ discord' = [discord EXCEPT ![tasks[c].message_id].embed =
                                            tasks[c].embed]
          /\ tasks' = [tasks EXCEPT ![c].pc = "edited"]
          /\ UNCHANGED <<DATA_STORE, MESSAGE_MAP, file, data_lock, req, queue,
                         loop, budget>>
       \/ /\ ~Found(discord, tasks[c].channel, tasks[c].message_id)
          /\ tasks' = [tasks EXCEPT ![c] = AfterNotFound(@)]
          /\ UNCHANGED <<DATA_STORE, MESSAGE_MAP, file, data_lock, req, queue,
                         loop, discord, budget>>
       \/ HttpError(c)

\* await channel.send(embed=embed) completes; on success the coroutine goes
\* straight into update_message_map(key, new_msg.id) without yielding
SendDone(c) ==
    /\ loop.pc = "idle"
    /\ tasks[c].pc = "send"
    /\ \/ LET new_id == Len(discord) + 1 IN
          /\ discord' = Append(discord, [channel |-> tasks[c].channel,
                                         embed |-> tasks[c].embed,
                                         live |-> TRUE])
          /\ tasks' = [tasks EXCEPT ![c].pc = "update_message_map",
                                    ![c].new_id = new_id]
          /\ loop' = [IdleLoop EXCEPT !.pc = "update", !.task = c,
                                      !.key = tasks[c].key, !.value = new_id]
          /\ UNCHANGED <<DATA_STORE, MESSAGE_MAP, file, data_lock, req, queue,
                         budget>>
       \/ HttpError(c)

\* Somebody deletes a message on the platform.
RemoteDelete(id) ==
    /\ budget.deletes > 0
    /\ id \in DOMAIN discord
    /\ discord[id].live
    /\ discord' = [discord EXCEPT ![id].live = FALSE]
    /\ budget' = [budget EXCEPT !.deletes = @ - 1]
    /\ UNCHANGED <<DATA_STORE, MESSAGE_MAP, file, data_lock, req, queue, tasks,
                   loop>>

(***************************************************************************)
(* The run-loop thread inside update_message_map (called by send_or_edit)  *)
(* or update_data_store("handlers", handlers) (called by a command).  The  *)
(* call blocks the loop: no other coroutine runs until it returns.         *)
(***************************************************************************)
LoopMutate ==
    /\ loop.pc = "update"
    /\ data_lock = Free
    /\ IF loop.task > 0
       THEN /\ MESSAGE_MAP' = update_message_map(MESSAGE_MAP, loop.key,
                                                 loop.value)
            /\ UNCHANGED DATA_STORE
       ELSE \* handlers is the dict DATA_STORE["handlers"] itself
            /\ DATA_STORE' = update_data_store(DATA_STORE, HandlersKey,
                                               Handlers(DATA_STORE))
            /\ UNCHANGED MESSAGE_MAP
    /\ loop' = [loop EXCEPT !.pc = "save"]
    /\ UNCHANGED <<file, data_lock, req, queue, tasks, discord, budget>>

LoopDump ==
    /\ loop.pc = "save"
    /\ data_lock = Free
    /\ data_lock' = Loop
    /\ file' = JsonDump(DATA_STORE, MESSAGE_MAP)
    /\ loop' = [loop EXCEPT !.pc = "dumped"]
    /\ UNCHANGED <<DATA_STORE, MESSAGE_MAP, req, queue, tasks, discord,
                   budget>>

\* save_data raises: send_or_edit catches it (except Exception) and ends;
\* a command lets it go to the command framework.
LoopDumpFail ==
    /\ loop.pc = "save"
    /\ data_lock = Free
    /\ budget.write_failures > 0
    /\ budget' = [budget EXCEPT !.write_failures = @ - 1]
    /\ file' \in FailedWrite(file)
    /\ tasks' = IF loop.task > 0
                THEN [tasks EXCEPT ![loop.task].pc = "persist_error"]
                ELSE tasks
    /\ loop' = IdleLoop
    /\ UNCHANGED <<DATA_STORE, MESSAGE_MAP, data_lock, req, queue, discord>>

\* save_data leaves its with-block, the update returns, and the coroutine
\* runs to its end (send_or_edit) or to its reply (command).
LoopRelease ==
    /\ loop.pc = "dumped"
    /\ data_lock = Loop
    /\ data_lock' = Free
    /\ tasks' = IF loop.task > 0
                THEN [tasks EXCEPT ![loop.task].pc = "sent"]
                ELSE tasks
    /\ loop' = IdleLoop
    /\ UNCHANGED <<DATA_STORE, MESSAGE_MAP, file, req, queue, discord, budget>>

(***************************************************************************)
(* Administrative commands (bot/commands.py)                               *)
(***************************************************************************)
CommandNames == {"togglehandler", "sethandlerchannel"}
CommandHandlers == {"pull_request", "issues"}

\* Variant: the command changes a copy it never stores.
Assigned_unchanged(handlers, command) == handlers

\* handlers[handler_name]["enabled"] = not current
\* handlers[handler_name]["channel_id"] = channel.id
\* Both assign into the dict that DATA_STORE["handlers"] refers to.
Assigned(handlers, command) ==
    LET entry == handlers.v[command.handler_name] IN
    IF command.name = "togglehandler"
    THEN Dict(Put(handlers.v, command.handler_name,
                  Dict(Put(entry.v, "enabled",
                           Bool(~Truthy(Get(entry, "enabled", Bool(FALSE))))))))
    ELSE Dict(Put(handlers.v, command.handler_name,
                  Dict(Put(entry.v, "channel_id", Num(command.channel_id)))))

\* The command up to "if handler_name not in handlers": get_data_store takes
\* data_lock; an unknown name is answered and nothing else happens.
CmdStart(name, handler_name, channel_id) ==
    /\ loop.pc = "idle"
    /\ data_lock = Free
    /\ budget.commands > 0
    /\ budget' = [budget EXCEPT !.commands = @ - 1]
    /\ IF handler_name \in DOMAIN Handlers(DATA_STORE).v
       THEN loop' = [IdleLoop EXCEPT
                        !.pc = "assign", !.key = HandlersKey,
                        !.command = [name |-> name,
                                     handler_name |-> handler_name,
                                     channel_id |-> channel_id]]
       ELSE UNCHANGED loop
    /\ UNCHANGED <<DATA_STORE, MESSAGE_MAP, file, data_lock, req, queue, tasks,
                   discord>>

\* The assignment into the routing entry: no lock is taken for it.
CmdAssign ==
    /\ loop.pc = "assign"
    /\ DATA_STORE' = Put(DATA_STORE, HandlersKey,
                         Assigned(Handlers(DATA_STORE), loop.command))
    /\ loop' = [loop EXCEPT !.pc = "update"]
    /\ UNCHANGED <<MESSAGE_MAP, file, data_lock, req, queue, tasks, discord,
                   budget>>

(***************************************************************************)
(* Specification                                                           *)
(***************************************************************************)
\* The steps of the program when the webhooks received are drawn from E.
NextOn(E) ==
    \/ \E i \in Requests, ev \in E : Receive(i, ev)
    \/ \E i \in Requests : ReqMutate(i)
    \/ \E i \in Requests : ReqDump(i)
    \/ \E i \in Requests : ReqDumpFail(i)
    \/ \E i \in Requests : ReqRelease(i)
    \/ \E i \in Requests : ReqSchedule(i)
    \/ StartTask
    \/ \E c \in DOMAIN tasks : FetchDone(c)
    \/ \E c \in DOMAIN tasks : EditDone(c)
    \/ \E c \in DOMAIN tasks : SendDone(c)
    \/ LoopMutate
    \/ LoopDump
    \/ LoopDumpFail
    \/ LoopRelease
    \/ \E name \in CommandNames, h \in CommandHandlers :
           CmdStart(name, h, IF name = "togglehandler" THEN 0 ELSE OtherChannel)
    \/ CmdAssign
    \/ \E id \in DOMAIN discord : RemoteDelete(id)

Next == NextOn(Events)

Spec == Init /\ [][Next]_vars

\* The process from the construction of DataPersistence (main, line 27):
\* both maps empty, nothing loaded yet, no thread started.
Boot ==
    /\ DATA_STORE = NoMap
    /\ MESSAGE_MAP = NoMap
    /\ file \in InitFiles
    /\ data_lock = Free
    /\ req = [i \in Requests |-> IdleReq]
    /\ queue = <<>>
    /\ tasks = <<>>
    /\ loop = [IdleLoop EXCEPT !.pc = "boot"]
    /\ discord = <<>>
    /\ budget = [commands |-> MaxCommands, deletes |-> MaxDeletes,
                 write_failures |-> MaxFailures,
                 http_errors |-> MaxFailures]

\* data_persistence.load_data() (main, line 28), the write it may do included
Load ==
    /\ loop.pc = "boot"
    /\ LET loaded == load_data(file) IN
       /\ DATA_STORE' = loaded.DATA_STORE
       /\ MESSAGE_MAP' = loaded.MESSAGE_MAP
       /\ file' = loaded.file
    /\ loop' = IdleLoop
    /\ UNCHANGED <<data_lock, req, queue, tasks, discord, budget>>

\* load_data's save_data() raising: nothing in load_data or main catches
\* it, and the process ends.
LoadFail ==
    /\ loop.pc = "boot"
    /\ file.t # "doc"
    /\ budget.write_failures > 0
    /\ budget' = [budget EXCEPT !.write_failures = @ - 1]
    /\ file' \in FailedWrite(file)
    /\ loop' = [loop EXCEPT !.pc = "crashed"]
    /\ UNCHANGED <<DATA_STORE, MESSAGE_MAP, data_lock, req, queue, tasks,
                   discord>>

StartSpec == Boot /\ [][Load \/ LoadFail \/ Next]_vars

EntitySpec == Init /\ [][NextOn(EntityEvents)]_vars

PushSpec == Init /\ [][NextOn(PushEvents)]_vars

\* The key handle_pull_request gives pull request 42.
PullRequest42 == <<"pull_request", ":", "42">>

\* A process that starts from the document an earlier run left: pull request
\* 42 is stored, its message is on the platform and MESSAGE_MAP points to it.
StoredRecord ==
    Head(handle_pull_request(PullRequestPayload("opened", "t1")).writes).value

StoredFile ==
    JsonDump(HandlersKey :> RoutingTable @@ PullRequest42 :> StoredRecord,
             PullRequest42 :> 1)

StoredEvents ==
    { Event("pull_request", PullRequestPayload("opened", "t1")),
      Event("pull_request", PullRequestPayload("closed", "t2")) }

StoredInit ==
    /\ LET loaded == load_data(StoredFile) IN
          /\ DATA_STORE = loaded.DATA_STORE
          /\ MESSAGE_MAP = loaded.MESSAGE_MAP
          /\ file = loaded.file
    /\ data_lock = Free
    /\ req = [i \in Requests |-> IdleReq]
    /\ queue = <<>>
    /\ tasks = <<>>
    /\ loop = IdleLoop
    /\ discord = << [channel |-> DefaultChannel,
                     embed |-> build_embed(PullRequest42, StoredRecord,
                                           "pull_request"),
                     live |-> TRUE] >>
    /\ budget = [commands |-> MaxCommands, deletes |-> MaxDeletes,
                 write_failures |-> MaxFailures,
                 http_errors |-> MaxFailures]

\* The steps that happen if they can: a webhook that is on its way arrives,
\* a thread that can run runs, the run-loop takes the next coroutine, and a
\* call to the platform completes (with a result or with an error).
Progress(E) ==
    \/ \E i \in Requests, ev \in E : Receive(i, ev)
    \/ \E i \in Requests : ReqMutate(i)
    \/ \E i \in Requests : ReqDump(i)
    \/ \E i \in Requests : ReqRelease(i)
    \/ \E i \in Requests : ReqSchedule(i)
    \/ StartTask
    \/ \E c \in DOMAIN tasks : FetchDone(c)
    \/ \E c \in DOMAIN tasks : EditDone(c)
    \/ \E c \in DOMAIN tasks : SendDone(c)
    \/ LoopMutate
    \/ LoopDump
    \/ LoopRelease
    \/ CmdAssign

StoredSpec ==
    /\ StoredInit
    /\ [][NextOn(StoredEvents)]_vars
    /\ WF_vars(Progress(StoredEvents))

\* Deliveries that carry the objects their handler reads from and lack
\* optional fields: a create with everything, with nothing, and with a
\* sender that has an id but no login; a review with an empty review and an
\* empty pull request; and a pull request with and without its fields.
CreatePayload(sender) ==
    Dict("ref_type" :> Str(<<"branch">>) @@ "ref" :> Str(<<"main">>) @@
         "sender" :> sender @@ "repository" :> Repo)

OptionalEvents ==
    { Event("create", CreatePayload(Dict("login" :> Str(<<"u">>)))),
      Event("create", EmptyDict),
      Event("create", CreatePayload(Dict("id" :> Num(5)))),
      Event("pull_request_review",
            Dict("review" :> EmptyDict @@ "pull_request" :> EmptyDict)),
      Event("pull_request", PullRequestPayload("opened", "t1")),
      Event("pull_request", Dict("pull_request" :> EmptyDict)) }

OptionalSpec == Init /\ [][NextOn(OptionalEvents)]_vars

\* A routing table with one category on the default channel, one on another
\* channel, and one on a channel the bot cannot see.
UnknownChannel == OtherChannel + 1

ChannelRoutingTable ==
    Dict("pull_request" :> HandlerConfig(TRUE) @@
         "push" :> HandlerConfigAt(TRUE, OtherChannel) @@
         "check_run" :> HandlerConfigAt(TRUE, UnknownChannel))

ChannelEvents ==
    { Event("pull_request", PullRequestPayload("opened", "t1")),
      Event("pull_request", PullRequestPayload("closed", "t2")),
      Event("push", PushPayload(<<Commit("abc")>>)),
      Event("check_run", EmptyDict) }

ChannelInit ==
    /\ LET loaded == load_data(JsonDump(HandlersKey :> ChannelRoutingTable,
                                        NoMap)) IN
          /\ DATA_STORE = loaded.DATA_STORE
          /\ MESSAGE_MAP = loaded.MESSAGE_MAP
          /\ file = loaded.file
    /\ data_lock = Free
    /\ req = [i \in Requests |-> IdleReq]
    /\ queue = <<>>
    /\ tasks = <<>>
    /\ loop = IdleLoop
    /\ discord = <<>>
    /\ budget = [commands |-> MaxCommands, deletes |-> MaxDeletes,
                 write_failures |-> MaxFailures,
                 http_errors |-> MaxFailures]

ChannelSpec == ChannelInit /\ [][NextOn(ChannelEvents)]_vars

\* A routing table whose pull_request entry has a channel and no "enabled"
\* field, and which has no entry at all for push.
PartialRoutingTable ==
    Dict("pull_request" :> Dict("channel_id" :> Num(OtherChannel)) @@
         "issues" :> HandlerConfig(TRUE))

PartialEvents ==
    { Event("pull_request", PullRequestPayload("opened", "t1")),
      Event("pull_request", PullRequestPayload("closed", "t2")),
      Event("push", PushPayload(<<Commit("abc")>>)) }

PartialInit ==
    /\ LET loaded == load_data(JsonDump(HandlersKey :> PartialRoutingTable,
                                        NoMap)) IN
          /\ DATA_STORE = loaded.DATA_STORE
          /\ MESSAGE_MAP = loaded.MESSAGE_MAP
          /\ file = loaded.file
    /\ data_lock = Free
    /\ req = [i \in Requests |-> IdleReq]
    /\ queue = <<>>
    /\ tasks = <<>>
    /\ loop = IdleLoop
    /\ discord = <<>>
    /\ budget = [commands |-> MaxCommands, deletes |-> MaxDeletes,
                 write_failures |-> MaxFailures,
                 http_errors |-> MaxFailures]

PartialSpec == PartialInit /\ [][NextOn(PartialEvents)]_vars

TypeOK ==
    /\ data_lock \in {Free, Loop} \cup Requests
    /\ \A i \in Requests : req[i].status \in {0, 200}
    /\ loop.pc \in {"idle", "update", "save", "dumped", "assign", "boot",
                  "crashed"}
    /\ \A c \in DOMAIN tasks :
          tasks[c].pc \in {"disabled", "no_channel", "fetch", "edit", "send",
                           "update_message_map", "sent", "edited",
                           "http_error", "persist_error"}

(***************************************************************************)
(* Properties                                                              *)
(***************************************************************************)
Calls(c, op) == {n \in DOMAIN tasks[c].calls : tasks[c].calls[n] = op}

\* No command, no remote deletion and no failure has happened so far.
Undisturbed ==
    budget = [commands |-> MaxCommands, deletes |-> MaxDeletes,
              write_failures |-> MaxFailures, http_errors |-> MaxFailures]

BlankEmbed == build_embed(<<>>, EmptyDict, "")

\* C1: for events sharing a key whose category stays enabled, with no
\* not-found and no failure, only the first send_or_edit issues a send: no
\* two send_or_edit coroutines for the same key have both issued a send.
C1_OneSendPerKey ==
    (Undisturbed /\ \A i \in Requests : ~req[i].raised) =>
        \A c1, c2 \in DOMAIN tasks :
            (c1 # c2 /\ tasks[c1].key = tasks[c2].key)
                => ~(Calls(c1, "send") # {} /\ Calls(c2, "send") # {})

\* C2: when the fetch or the edit of a stored id reports not-found, the
\* coroutine issues one send (and never a second one), and when that send
\* has succeeded the coroutine ends with MESSAGE_MAP[key] holding the new id,
\* which is not the old id.
C2_SelfHeal ==
    [][\A c \in DOMAIN tasks :
          /\ (/\ tasks[c].pc \in {"fetch", "edit"}
              /\ tasks'[c] # tasks[c]
              /\ budget' = budget
              /\ ~Found(discord, tasks[c].channel, tasks[c].message_id))
                 => /\ tasks'[c].pc = "send"
                    /\ tasks'[c].calls = Append(tasks[c].calls, "send")
          /\ tasks'[c].message_id # 0
                 => Cardinality({n \in DOMAIN tasks'[c].calls :
                                    tasks'[c].calls[n] = "send"}) <= 1
          /\ (/\ tasks[c].message_id # 0
              /\ tasks[c].pc = "update_message_map"
              /\ tasks'[c].pc # "update_message_map")
                 => /\ tasks[c].key \in DOMAIN MESSAGE_MAP'
                    /\ MESSAGE_MAP'[tasks[c].key] = tasks[c].new_id
                    /\ MESSAGE_MAP'[tasks[c].key] # tasks[c].message_id
      ]_vars

\* A coroutine that found a stored id, was told not-found, sent again and has
\* finished.
C2_Witness ==
    \E c \in DOMAIN tasks :
        /\ tasks[c].message_id # 0
        /\ tasks[c].pc = "sent"
        /\ MESSAGE_MAP[tasks[c].key] = tasks[c].new_id

\* The routing entry of a category, read from the store directly: present
\* with "enabled" true.
RoutingEnabled(name) ==
    /\ HandlersKey \in DOMAIN DATA_STORE
    /\ name \in DOMAIN DATA_STORE[HandlersKey].v
    /\ "enabled" \in DOMAIN DATA_STORE[HandlersKey].v[name].v
    /\ DATA_STORE[HandlersKey].v[name].v["enabled"] = Bool(TRUE)

\* C3: when the category of the event is disabled as send_or_edit starts, the
\* coroutine ends at once: nothing rendered, no channel resolved, no call
\* issued, MESSAGE_MAP and the platform untouched, and it stays ended; the
\* record of the event is in DATA_STORE.
C3_DisabledNoOp ==
    [][/\ (/\ Len(tasks') = Len(tasks) + 1
           /\ ~RoutingEnabled(Head(queue).handler_name))
              => LET task == tasks'[Len(tasks')] IN
                 /\ task.pc = "disabled"
                 /\ task.calls = <<>>
                 /\ task.channel = 0
                 /\ task.embed = BlankEmbed
                 /\ MESSAGE_MAP' = MESSAGE_MAP
                 /\ discord' = discord
                 /\ task.key \in DOMAIN DATA_STORE'
       /\ \A c \in DOMAIN tasks :
              tasks[c].pc = "disabled" => tasks'[c] = tasks[c]
      ]_vars

\* A check_run event came in while the routing table has check_run disabled.
C3_Witness ==
    \E c \in DOMAIN tasks :
        /\ tasks[c].pc = "disabled"
        /\ tasks[c].handler_name = "check_run"
        /\ HandlersKey \in DOMAIN DATA_STORE
        /\ "check_run" \in DOMAIN DATA_STORE[HandlersKey].v
        /\ tasks[c].key \in DOMAIN DATA_STORE

\* C4: when a pending fetch, edit or send fails with an error other than
\* not-found, the coroutine ends there: it issues no further call and the
\* step changes neither MESSAGE_MAP nor the platform; an ended coroutine
\* stays ended, and MESSAGE_MAP is written only by a coroutine whose send
\* succeeded.
C4_TransientFailure ==
    [][/\ \A c \in DOMAIN tasks :
            /\ (/\ tasks[c].pc \in {"fetch", "edit", "send"}
                /\ tasks'[c] # tasks[c]
                /\ budget'.http_errors < budget.http_errors)
                   => /\ tasks'[c].pc = "http_error"
                      /\ tasks'[c].calls = tasks[c].calls
                      /\ tasks'[c].new_id = 0
                      /\ MESSAGE_MAP' = MESSAGE_MAP
                      /\ discord' = discord
            /\ tasks[c].pc = "http_error" => tasks'[c] = tasks[c]
       /\ MESSAGE_MAP' # MESSAGE_MAP
              => /\ loop.task \in DOMAIN tasks
                 /\ tasks[loop.task].pc = "update_message_map"
      ]_vars

\* An edit attempt on a stored id failed and the stale entry is still there.
C4_Witness ==
    \E c \in DOMAIN tasks :
        /\ tasks[c].pc = "http_error"
        /\ tasks[c].message_id # 0
        /\ tasks[c].key \in DOMAIN MESSAGE_MAP
        /\ MESSAGE_MAP[tasks[c].key] = tasks[c].message_id

\* C5: update_data_store(k, r) leaves exactly r at k, whatever was there,
\* and leaves every other key's record as it was.
C5_Overwrite ==
    [][\A i \in Requests :
          (req[i].pc = "update" /\ req'[i].pc = "save")
              => LET w == Head(req[i].writes) IN
                 /\ DOMAIN DATA_STORE' = DOMAIN DATA_STORE \cup {w.key}
                 /\ DATA_STORE'[w.key] = w.value
                 /\ \A k \in DOMAIN DATA_STORE \ {w.key} :
                        DATA_STORE'[k] = DATA_STORE[k]
      ]_vars

\* Two pull_request events with different records have both been stored at
\* the same key, the second over the first.
C5_Witness ==
    /\ \A i \in Requests :
          /\ req[i].event_type = "pull_request"
          /\ "pull_request" \in DOMAIN req[i].payload.v
          /\ ~req[i].raised
          /\ req[i].pc \in {"save", "dumped", "updated", "responded"}
    /\ req[1].payload # req[2].payload
    /\ req[1].pc = "responded"
    /\ DATA_STORE[PullRequest42].v["action"] = req[2].payload.v["action"]

\* The maps a restart would load from the document as it is now.
Reloaded == load_data(file)

\* No writer is between its in-memory mutation and the end of its flush.
NoWriterMidUpdate ==
    /\ \A j \in Requests : req[j].pc \notin {"save", "dumped"}
    /\ loop.pc \notin {"save", "dumped"}
    /\ loop.pc = "update" => loop.task > 0

\* C6 as stated: whenever an update has just returned, whatever the other
\* writers are doing, what load_data reads from the document is the
\* in-memory DATA_STORE and MESSAGE_MAP.
C6_ReloadAfterReturn ==
    \A i \in Requests :
        req[i].pc = "updated"
            => /\ Reloaded.DATA_STORE = DATA_STORE
               /\ Reloaded.MESSAGE_MAP = MESSAGE_MAP

\* C6 amended: when no write of the document has failed and no writer is
\* between its mutation and the end of its flush (in particular just after
\* an update has returned with no other writer mid-update), what load_data
\* reads from the document is the in-memory DATA_STORE and MESSAGE_MAP.
C6_ReloadWhenQuiet ==
    (NoWriterMidUpdate /\ budget.write_failures = MaxFailures)
        => /\ Reloaded.DATA_STORE = DATA_STORE
           /\ Reloaded.MESSAGE_MAP = MESSAGE_MAP

\* An update_data_store has just returned on a request thread, after a
\* message id was recorded and another request had stored its record, and
\* nobody else is writing.
C6_Witness ==
    /\ NoWriterMidUpdate
    /\ budget.write_failures = MaxFailures
    /\ \E i, j \in Requests :
          /\ req[i].pc = "updated"
          /\ req[j].pc = "responded"
          /\ ~req[j].raised
          /\ req[j].event_type = "pull_request"
    /\ DOMAIN MESSAGE_MAP # {}

\* C7: between a writer's mutation and that writer's flush no mutation of
\* DATA_STORE or MESSAGE_MAP occurs (the two are one critical section).
C7_OneCriticalSection ==
    [][(\/ \E i \in Requests : req[i].pc = "save" /\ req'[i].pc = "save"
        \/ loop.pc = "save" /\ loop'.pc = "save")
           => /\ DATA_STORE' = DATA_STORE
              /\ MESSAGE_MAP' = MESSAGE_MAP
      ]_vars

C9_UnknownCategory ==
    [][\A i \in Requests :
          /\ (/\ req[i].pc = "idle"
              /\ req'[i].pc # "idle"
              /\ req'[i].event_type \notin EVENT_HANDLERS)
                 => /\ req'[i].pc = "responded"
                    /\ req'[i].writes = <<>>
                    /\ ~req'[i].raised
                    /\ DATA_STORE' = DATA_STORE
                    /\ MESSAGE_MAP' = MESSAGE_MAP
                    /\ queue' = queue
                    /\ tasks' = tasks
          /\ (req[i].pc = "responded" /\ req[i].event_type \notin EVENT_HANDLERS)
                 => req'[i] = req[i]
      ]_vars

\* A ping event has been received and answered.
C9_Witness ==
    \E i \in Requests :
        /\ req[i].event_type = "ping"
        /\ req[i].pc = "responded"
        /\ req[i].status = 200

\* The request carries a check_run or pull_request event whose payload has
\* no object of that name.
LacksCore(r) ==
    /\ r.event_type \in {"check_run", "pull_request"}
    /\ r.event_type \notin DOMAIN r.payload.v

\* The key and the record the handlers build from their defaults.
DefaultKey(event_type) ==
    IF event_type = "check_run" THEN <<"check_run", ":", "unknown">>
    ELSE <<"pull_request", ":", "0">>

DefaultRecord(r) ==
    IF r.event_type = "check_run"
    THEN Dict("name" :> Str(<<"Unnamed Check">>) @@
              "url" :> Str(<<"#">>) @@
              "status" :> Str(<<"unknown">>) @@
              "conclusion" :> Str(<<"unknown">>) @@
              "head_sha" :> Str(<<"unknown">>) @@
              "repo_full_name" :> RepoFullName(r.payload))
    ELSE Dict("title" :> Str(<<>>) @@
              "url" :> Str(<<"#">>) @@
              "action" :> Get(r.payload, "action", Str(<<"unknown">>)) @@
              "merged" :> Bool(FALSE) @@
              "repo_full_name" :> RepoFullName(r.payload))

Scheduled(key) ==
    \/ \E n \in DOMAIN queue : queue[n].key = key
    \/ \E c \in DOMAIN tasks : tasks[c].key = key

WorkflowRunWith(r, status) ==
    /\ r.event_type = "workflow_run"
    /\ "workflow_run" \in DOMAIN r.payload.v
    /\ Get(r.payload.v["workflow_run"], "status", None) = Str(<<status>>)

WorkflowRun9 == <<"workflow_run", ":", "9">>

\* The record handle_workflow_run builds for run 9 once it has completed.
WorkflowRun9Record ==
    Dict("name" :> Str(<<"ci">>) @@
         "status" :> Str(<<"completed">>) @@
         "conclusion" :> Str(<<"unknown">>) @@
         "url" :> Str(<<"#">>) @@
         "started_at" :> Str(<<>>) @@
         "completed_at" :> Str(<<>>) @@
         "head_sha" :> Str(<<"unknown">>) @@
         "repo_full_name" :> Str(<<"o/r">>))

\* C11: a workflow_run event whose status is in_progress is answered at once
\* with DATA_STORE unchanged and no send_or_edit submitted; a completed
\* event for the same run writes its record at workflow_run:<id> and, when
\* the update has returned, submits a send_or_edit for that key.
C11_WorkflowRunFilter ==
    [][\A i \in Requests :
          /\ (/\ req[i].pc = "idle"
              /\ req'[i].pc # "idle"
              /\ WorkflowRunWith(req'[i], "in_progress"))
                 => /\ req'[i].pc = "responded"
                    /\ req'[i].writes = <<>>
                    /\ ~req'[i].raised
                    /\ DATA_STORE' = DATA_STORE
                    /\ queue' = queue
                    /\ tasks' = tasks
          /\ (/\ req[i].pc = "idle"
              /\ req'[i].pc # "idle"
              /\ WorkflowRunWith(req'[i], "completed"))
                 => req'[i].pc = "update"
          /\ (/\ WorkflowRunWith(req[i], "completed")
              /\ req[i].pc = "update"
              /\ req'[i].pc = "save")
                 => /\ WorkflowRun9 \in DOMAIN DATA_STORE'
                    /\ DATA_STORE'[WorkflowRun9] = WorkflowRun9Record
          /\ (/\ WorkflowRunWith(req[i], "completed")
              /\ req[i].pc = "updated"
              /\ req'[i] # req[i])
                 => /\ queue' = Append(queue, [key |-> WorkflowRun9,
                                               handler_name |-> "workflow_run"])
                    /\ req'[i].pc = "responded"
                    /\ ~req'[i].raised
      ]_vars

\* Run 9 was reported in progress and dropped, then reported completed,
\* stored and handed to send_or_edit.
C11_Witness ==
    /\ WorkflowRunWith(req[1], "in_progress")
    /\ WorkflowRunWith(req[2], "completed")
    /\ req[2].pc = "responded"
    /\ ~req[2].raised
    /\ WorkflowRun9 \in DOMAIN DATA_STORE
    /\ Scheduled(WorkflowRun9)

\* The request has been received (its event type and payload are known).
Received(r) == r.pc # "idle"

\* The keys the handler derives from the request's event.
KeysOf(r) ==
    LET writes == handle_event(r.event_type, r.payload).writes
    IN {writes[n].key : n \in DOMAIN writes}

\* The logical entity an event is about: its category, its repository and
\* the number or id GitHub gives the pull request, issue or workflow run.
EntityOf(r) ==
    LET core == IF r.event_type = "issues" THEN "issue" ELSE r.event_type
        object == Get(r.payload, core, EmptyDict)
    IN <<r.event_type,
         RepoFullName(r.payload),
         IF r.event_type = "workflow_run"
         THEN Get(object, "id", None)
         ELSE Get(object, "number", None)>>

\* C12: two received events about the same entity (same category, same
\* repository, same number), each of which yields a key, yield the same
\* key, whatever their action, title or other fields.
C12_KeyStability ==
    \A i, j \in Requests :
        (/\ Received(req[i]) /\ Received(req[j])
         /\ EntityOf(req[i]) = EntityOf(req[j])
         /\ KeysOf(req[i]) # {} /\ KeysOf(req[j]) # {})
            => KeysOf(req[i]) = KeysOf(req[j])

\* C13: two received events about different entities never yield the same
\* key.
C13_NoCollision ==
    \A i, j \in Requests :
        (/\ Received(req[i]) /\ Received(req[j])
         /\ EntityOf(req[i]) # EntityOf(req[j]))
            => KeysOf(req[i]) \cap KeysOf(req[j]) = {}

\* The key of a pushed commit and the record handle_push builds for the
\* commits of PushEvents (which carry no url).
PushKey(commit) == <<"push", ":">> \o commit.v["id"].v

PushRecord ==
    Dict("message" :> Str(<<"m">>) @@
         "url" :> Str(<<"#">>) @@
         "repo_full_name" :> Str(<<"o/r">>))

\* The coroutines for a key that have sent their message and recorded it.
SentFor(key) ==
    {c \in DOMAIN tasks : tasks[c].key = key /\ tasks[c].pc = "sent"}

\* C14: a push with commits c1..cn writes, commit by commit, the record
\* {message, url, repo_full_name} at push:<sha> and submits one send_or_edit
\* for it.  With push enabled, a send_or_edit that finds no message id for
\* its commit sends; one that starts after an earlier delivery of the commit
\* has sent and recorded its message (and no message was deleted) fetches
\* and edits that same message id, sends nothing, and leaves MESSAGE_MAP as
\* it is.
C14_PushScenario ==
    [][/\ \A i \in Requests :
            LET commits == req'[i].payload.v["commits"].v IN
            /\ (req[i].pc = "idle" /\ req'[i].event_type = "push")
                  => /\ req'[i].pc = "update"
                     /\ Len(req'[i].writes) = Len(commits)
                     /\ \A n \in DOMAIN commits :
                           req'[i].writes[n] =
                               [key |-> PushKey(commits[n]),
                                value |-> PushRecord,
                                handler_name |-> "push"]
            /\ (req[i].pc = "update" /\ req'[i].pc = "save")
                  => /\ Head(req[i].writes).key \in DOMAIN DATA_STORE'
                     /\ DATA_STORE'[Head(req[i].writes).key] = PushRecord
            /\ (req[i].pc = "updated" /\ req'[i] # req[i])
                  => /\ queue' = Append(queue,
                                        [key |-> Head(req[i].writes).key,
                                         handler_name |-> "push"])
                     /\ req'[i].writes = Tail(req[i].writes)
       /\ (Len(tasks') = Len(tasks) + 1 /\ RoutingEnabled("push"))
             => LET task == tasks'[Len(tasks')] IN
                /\ task.key \notin DOMAIN MESSAGE_MAP
                      => task.pc = "send" /\ task.calls = <<"send">>
                /\ (SentFor(task.key) # {} /\ budget.deletes = MaxDeletes)
                      => /\ task.pc = "fetch"
                         /\ task.calls = <<"fetch">>
                         /\ task.message_id = MESSAGE_MAP[task.key]
                         /\ \E c \in SentFor(task.key) :
                               tasks[c].new_id = task.message_id
                         /\ Found(discord, task.channel, task.message_id)
       /\ \A c \in DOMAIN tasks :
            (/\ tasks[c].pc \in {"fetch", "edit"}
             /\ tasks'[c] # tasks[c]
             /\ budget' = budget
             /\ Found(discord, tasks[c].channel, tasks[c].message_id))
                => /\ MESSAGE_MAP' = MESSAGE_MAP
                   /\ Len(discord') = Len(discord)
                   /\ tasks'[c].message_id = tasks[c].message_id
                   /\ IF tasks[c].pc = "fetch"
                      THEN /\ tasks'[c].pc = "edit"
                           /\ tasks'[c].calls = <<"fetch", "edit">>
                      ELSE /\ tasks'[c].pc = "edited"
                           /\ tasks'[c].calls = <<"fetch", "edit">>
                           /\ discord'[tasks[c].message_id].embed
                                 = tasks[c].embed
      ]_vars

\* The same push of two commits was delivered twice: the first delivery of
\* commit abc was sent, the second edited that message, and MESSAGE_MAP
\* still holds the id of the first.
C14_Witness ==
    /\ Undisturbed
    /\ req[1].payload = req[2].payload
    /\ \A i \in Requests :
          /\ req[i].event_type = "push"
          /\ Len(req[i].payload.v["commits"].v) = 2
          /\ req[i].pc = "responded"
    /\ \E c1, c2 \in DOMAIN tasks :
          /\ tasks[c1].key = <<"push", ":", "abc">>
          /\ tasks[c2].key = tasks[c1].key
          /\ tasks[c1].pc = "sent"
          /\ tasks[c2].pc = "edited"
          /\ tasks[c2].message_id = tasks[c1].new_id
          /\ tasks[c2].embed = tasks[c1].embed
          /\ MESSAGE_MAP[tasks[c1].key] = tasks[c1].new_id
    /\ \E c \in DOMAIN tasks : tasks[c].key = <<"push", ":", "def">>

\* C15: a step of a request thread issues no call, starts and advances no
\* coroutine and leaves the platform alone; what it has to send it appends
\* to the run-loop's queue, and it can always do so at once, whatever the
\* run-loop is doing; coroutines are started only from that queue, by a step
\* that is not a request thread's.
C15_Handoff ==
    /\ [](\A i \in Requests : req[i].pc = "updated" => ENABLED ReqSchedule(i))
    /\ [][/\ \A i \in Requests :
               /\ req'[i] # req[i]
                     => /\ tasks' = tasks
                        /\ discord' = discord
                        /\ loop' = loop
               /\ (req[i].pc = "updated" /\ req'[i] # req[i])
                     => /\ Len(queue') = Len(queue) + 1
                        /\ queue'[Len(queue')].key = Head(req[i].writes).key
          /\ Len(tasks') > Len(tasks)
                => /\ req' = req
                   /\ queue # <<>>
                   /\ queue' = Tail(queue)
                   /\ tasks'[Len(tasks')].key = Head(queue).key
         ]_vars

\* Both requests have been answered while neither of their coroutines has
\* started.
C15_Witness ==
    /\ \A i \in Requests :
          /\ req[i].pc = "responded"
          /\ req[i].event_type = "pull_request"
          /\ ~req[i].raised
    /\ Len(queue) = MaxEvents
    /\ tasks = <<>>

\* The document json.dump writes for two empty maps.
EmptyDocument ==
    [t |-> "doc", v |-> ("DATA_STORE" :> <<>> @@ "MESSAGE_MAP" :> <<>>)]

WriteFails == budget'.write_failures < budget.write_failures

RoutedChannel(name) ==
    IF "channel_id" \in DOMAIN DATA_STORE[HandlersKey].v[name].v
    THEN DATA_STORE[HandlersKey].v[name].v["channel_id"].v
    ELSE DefaultChannel

\* The run-loop is inside an administrative command.
InCommand == loop.task = 0 /\ loop.pc \in {"assign", "update", "save", "dumped"}

C19_CategoryEntry ==
    [][Len(tasks') = Len(tasks) + 1
          => (tasks'[Len(tasks')].pc = "disabled"
                 <=> ~RoutingEnabled(Head(queue).handler_name))
      ]_vars

\* C20: a routing entry changes only in a step that takes data_lock for the
\* change, so never while another thread holds data_lock for its flush of
\* the document.
C20_RoutingUnderLock ==
    [][(/\ HandlersKey \in DOMAIN DATA_STORE
        /\ HandlersKey \in DOMAIN DATA_STORE'
        /\ DATA_STORE'[HandlersKey] # DATA_STORE[HandlersKey])
           => data_lock = Free
      ]_vars

\* C21: data_lock is taken only for a map assignment or for writing the
\* document: whoever holds it is inside save_data's with-block (a request
\* thread, or the run-loop thread in update_message_map or in a command's
\* update_data_store), and no coroutine holds it while it waits for a fetch,
\* an edit or a send; while the run-loop is between coroutines it holds
\* nothing.
C21_LockNotAcrossCalls ==
    /\ data_lock \in Requests => req[data_lock].pc = "dumped"
    /\ data_lock = Loop =>
          /\ loop.pc = "dumped"
          /\ loop.task > 0 => tasks[loop.task].pc = "update_message_map"
    /\ \A c \in DOMAIN tasks :
          tasks[c].pc \in {"fetch", "edit", "send"} =>
              ~(data_lock = Loop /\ loop.task = c)
    /\ loop.pc = "idle" => data_lock # Loop

\* The run-loop thread writes the document for one coroutine while another
\* coroutine is waiting for the platform.
C21_Witness ==
    /\ data_lock = Loop
    /\ loop.task > 0
    /\ \E c \in DOMAIN tasks :
          c # loop.task /\ tasks[c].pc \in {"fetch", "edit", "send"}

\* The keys a webhook writes, whichever of the deliveries modelled it is.
WrittenKeys(ev) ==
    LET res == handle_event(ev.event_type, ev.payload) IN
    {res.writes[n].key : n \in DOMAIN res.writes}

\* C22: the routing table (DATA_STORE["handlers"]) is changed only by the
\* assignment of an administrative command: no step of a request thread
\* (handle_event and the update_data_store calls it makes) and no step of a
\* send_or_edit coroutine adds, removes or changes it; and no key a handler
\* writes is the key "handlers".
C22_RoutingFrame ==
    /\ \A ev \in Events \cup EntityEvents \cup PushEvents :
          HandlersKey \notin WrittenKeys(ev)
    /\ [](\A i \in Requests : \A n \in DOMAIN req[i].writes :
             req[i].writes[n].key # HandlersKey)
    /\ [][(\/ (HandlersKey \in DOMAIN DATA_STORE')
                  # (HandlersKey \in DOMAIN DATA_STORE)
            \/ Handlers(DATA_STORE') # Handlers(DATA_STORE))
              => /\ loop.pc = "assign"
                 /\ loop.task = 0
                 /\ req' = req
                 /\ tasks' = tasks
          ]_vars

\* Records have been stored and a send_or_edit has run to its end, no command
\* was given, and the routing table is the one the process started with.
C22_Witness ==
    /\ budget.commands = MaxCommands
    /\ \E i \in Requests :
          req[i].pc = "responded" /\ req[i].event_type = "pull_request"
    /\ PullRequest42 \in DOMAIN DATA_STORE
    /\ \E c \in DOMAIN tasks : tasks[c].pc = "sent"
    /\ Handlers(DATA_STORE) = RoutingTable

\* C23: from the end of load_data on, no step removes a key from DATA_STORE
\* or from MESSAGE_MAP, whether it belongs to a request, to a send_or_edit
\* coroutine or to a command; and a fetch or edit that ends in not-found or
\* in an error leaves the key's MESSAGE_MAP entry in place with the id it had.
C23_NoDeletion ==
    [][/\ DOMAIN DATA_STORE \subseteq DOMAIN DATA_STORE'
       /\ DOMAIN MESSAGE_MAP \subseteq DOMAIN MESSAGE_MAP'
       /\ \A c \in DOMAIN tasks :
             (/\ tasks[c].pc \in {"fetch", "edit"}
              /\ tasks'[c].pc \in {"send", "http_error"})
                 => /\ tasks[c].key \in DOMAIN MESSAGE_MAP
                    /\ tasks[c].key \in DOMAIN MESSAGE_MAP'
                    /\ MESSAGE_MAP'[tasks[c].key] = MESSAGE_MAP[tasks[c].key]
      ]_vars

\* The message stored for a key is gone from the platform, the edit attempt
\* was told so and is resending, the entry is still the old id, and the
\* record and the routing table are in the store.
C23_Witness ==
    /\ HandlersKey \in DOMAIN DATA_STORE
    /\ \E c \in DOMAIN tasks :
          /\ tasks[c].pc = "send"
          /\ tasks[c].message_id # 0
          /\ ~discord[tasks[c].message_id].live
          /\ tasks[c].key \in DOMAIN DATA_STORE
          /\ tasks[c].key \in DOMAIN MESSAGE_MAP
          /\ MESSAGE_MAP[tasks[c].key] = tasks[c].message_id

\* The ids of the messages sent for a key so far, deleted ones included; the
\* platform numbers messages in the order the sends succeeded.
SentIds(key) == {id \in DOMAIN discord : discord[id].embed.key = key}

\* The run-loop thread is between the return of a successful send and the
\* assignment in update_message_map that records it.
Recording == loop.task > 0 /\ loop.pc = "update"

C25_EditIsFrame ==
    /\ [](\A c \in DOMAIN tasks :
             tasks[c].pc = "edited" =>
                 /\ tasks[c].calls = <<"fetch", "edit">>
                 /\ tasks[c].new_id = 0
                 /\ loop.task # c
                 /\ tasks[c].key \in DOMAIN MESSAGE_MAP)
    /\ [][\A c \in DOMAIN tasks :
             /\ (/\ tasks[c].pc = "fetch"
                 /\ tasks'[c] # tasks[c]
                 /\ budget' = budget
                 /\ Found(discord, tasks[c].channel, tasks[c].message_id))
                    => /\ tasks'[c].pc = "edit"
                       /\ MESSAGE_MAP' = MESSAGE_MAP
             /\ (/\ tasks[c].pc = "edit"
                 /\ tasks'[c] # tasks[c]
                 /\ budget' = budget
                 /\ Found(discord, tasks[c].channel, tasks[c].message_id))
                    => /\ tasks'[c].pc = "edited"
                       /\ tasks'[c].calls = tasks[c].calls
                       /\ MESSAGE_MAP' = MESSAGE_MAP
                       /\ discord'[tasks[c].message_id].embed = tasks[c].embed
                       /\ Len(discord') = Len(discord)
             /\ tasks[c].pc = "edited" => tasks'[c] = tasks[c]
          ]_vars

\* A second event for a pull request has edited the message sent for the
\* first: one message, now showing the second record, and the entry is the
\* same id.
C25_Witness ==
    \E c \in DOMAIN tasks :
        /\ tasks[c].pc = "edited"
        /\ tasks[c].key = PullRequest42
        /\ Len(discord) = 1
        /\ MESSAGE_MAP[PullRequest42] = 1
        /\ tasks[c].message_id = 1
        /\ discord[1].embed = tasks[c].embed
        /\ \E c1 \in DOMAIN tasks :
              tasks[c1].pc = "sent" /\ tasks[c1].embed # tasks[c].embed

\* The sequences of calls one send_or_edit invocation can have issued.
CallPatterns ==
    { <<>>, <<"send">>, <<"fetch">>, <<"fetch", "edit">>,
      <<"fetch", "send">>, <<"fetch", "edit", "send">> }

\* C26: one invocation issues at most one fetch, at most one edit and at most
\* one send; a send follows a fetch or an edit only in the step in which
\* that call reported not-found; and a send that fails ends the invocation
\* with no call added.
C26_NoRetryLoop ==
    /\ [](\A c \in DOMAIN tasks : tasks[c].calls \in CallPatterns)
    /\ [][\A c \in DOMAIN tasks :
             /\ (/\ tasks[c].pc \in {"fetch", "edit"}
                 /\ tasks'[c].pc = "send")
                    => /\ ~Found(discord, tasks[c].channel,
                                 tasks[c].message_id)
                       /\ budget' = budget
             /\ (/\ tasks[c].pc = "send"
                 /\ tasks'[c] # tasks[c])
                    => /\ tasks'[c].calls = tasks[c].calls
                       /\ tasks'[c].pc \in {"update_message_map",
                                             "http_error"}
             /\ tasks[c].pc \in {"sent", "edited", "http_error",
                                  "persist_error", "disabled", "no_channel"}
                    => tasks'[c] = tasks[c]
          ]_vars

\* The edit was told not-found, the one send that followed failed, and the
\* invocation is over with three calls issued.
C26_Witness ==
    \E c \in DOMAIN tasks :
        /\ tasks[c].pc = "http_error"
        /\ tasks[c].calls = <<"fetch", "edit", "send">>

\* The entry of a key points to a message that is no longer on the platform.
Stale(key) ==
    /\ key \in DOMAIN MESSAGE_MAP
    /\ MESSAGE_MAP[key] \in DOMAIN discord
    /\ ~discord[MESSAGE_MAP[key]].live

\* An invocation for the key was told not-found, resent, and the send failed.
FailedResend(key) ==
    \E c \in DOMAIN tasks :
        /\ tasks[c].key = key
        /\ tasks[c].pc = "http_error"
        /\ tasks[c].message_id # 0
        /\ tasks[c].calls[Len(tasks[c].calls)] = "send"

\* A further event for the key has been stored and its send_or_edit is
\* submitted or about to be.
Pending(key) ==
    \/ \E n \in DOMAIN queue : queue[n].key = key
    \/ \E i \in Requests :
          req[i].pc = "updated" /\ Head(req[i].writes).key = key

\* The entry of the key points to a message that is on the platform.
Healed(key) ==
    /\ key \in DOMAIN MESSAGE_MAP
    /\ MESSAGE_MAP[key] \in DOMAIN discord
    /\ discord[MESSAGE_MAP[key]].live

\* A message for the key, sent after message n, is on the platform.
LiveSince(key, n) ==
    \E id \in SentIds(key) : id > n /\ discord[id].live

\* C27: after the stored message was deleted and a resend failed, the stale
\* id stays in MESSAGE_MAP; a later invocation for the key whose fetch or
\* edit is told not-found sends, the message that send creates is live, and
\* update_message_map makes its id the entry of the key.  And when the entry
\* is stale after a failed resend, a further event for the key is on its way
\* to send_or_edit and calls have stopped failing, a new message for the key
\* appears on the platform, unless the category is disabled meanwhile.
C27_EventualSelfHeal ==
    /\ [][\A c \in DOMAIN tasks :
             LET key == tasks[c].key IN
             /\ (/\ tasks[c].message_id # 0
                 /\ tasks[c].pc = "send"
                 /\ tasks'[c].pc = "http_error")
                    => /\ MESSAGE_MAP' = MESSAGE_MAP
                       /\ FailedResend(key)'
             /\ (/\ FailedResend(key)
                 /\ ~Found(discord, tasks[c].channel, tasks[c].message_id)
                 /\ tasks[c].pc \in {"fetch", "edit"}
                 /\ tasks'[c] # tasks[c]
                 /\ budget' = budget)
                    => tasks'[c].pc = "send"
             /\ (/\ FailedResend(key)
                 /\ tasks[c].message_id # 0
                 /\ tasks[c].pc = "send"
                 /\ tasks'[c].pc = "update_message_map")
                    => /\ discord'[tasks'[c].new_id].live
                       /\ tasks'[c].new_id > tasks[c].message_id
                       /\ loop'.task = c
             /\ (/\ FailedResend(key)
                 /\ tasks[c].message_id # 0
                 /\ loop.task = c
                 /\ loop.pc = "update"
                 /\ loop'.pc = "save")
                    => MESSAGE_MAP'[key] = tasks[c].new_id
          ]_vars
    /\ \A n \in 1..(MaxEvents + 1) :
          (/\ FailedResend(PullRequest42)
           /\ Stale(PullRequest42)
           /\ MESSAGE_MAP[PullRequest42] = n
           /\ Pending(PullRequest42)
           /\ budget.http_errors = 0)
             ~> (\/ LiveSince(PullRequest42, n)
                 \/ ~RoutingEnabled("pull_request"))

\* The message of pull request 42 was deleted, the resend of one event
\* failed, and the next event's resend has put a live message in the entry.
C27_Witness ==
    /\ FailedResend(PullRequest42)
    /\ ~discord[1].live
    /\ Healed(PullRequest42)
    /\ MESSAGE_MAP[PullRequest42] = 2
    /\ RoutingEnabled("pull_request")
    /\ \E c \in DOMAIN tasks :
          tasks[c].pc = "sent" /\ tasks[c].message_id = 1

\* Every webhook received has been answered without an exception and every
\* send_or_edit it submitted has run to a successful end.
AllSynced ==
    /\ \A i \in Requests : req[i].pc = "responded" /\ ~req[i].raised
    /\ queue = <<>>
    /\ loop.pc = "idle"
    /\ Len(tasks) = MaxEvents
    /\ \A c \in DOMAIN tasks : tasks[c].pc \in {"sent", "edited"}

\* C28: when nothing was deleted, nothing failed and no command was given,
\* and every send_or_edit scheduled for pull request 42 has completed by
\* editing the stored message, that message shows the rendering of the
\* record now stored for the key, whichever edit completed last.
C28_UpToDate ==
    (/\ Undisturbed
     /\ AllSynced
     /\ \A c \in DOMAIN tasks :
           tasks[c].key = PullRequest42 /\ tasks[c].pc = "edited")
        => discord[MESSAGE_MAP[PullRequest42]].embed
              = build_embed(PullRequest42, DATA_STORE[PullRequest42],
                            "pull_request")

\* The objects of the payload a category's handler takes its fields from.
CoreObjects(event_type) ==
    CASE event_type \in {"check_run", "check_suite", "workflow_run",
                         "workflow_job", "pull_request", "release", "member",
                         "repository"} -> {event_type}
      [] event_type = "pull_request_review" -> {"review", "pull_request"}
      [] event_type = "pull_request_review_comment" ->
             {"comment", "pull_request"}
      [] event_type = "issues" -> {"issue"}
      [] event_type = "issue_comment" -> {"comment", "issue"}
      [] event_type = "commit_comment" -> {"comment"}
      [] event_type = "fork" -> {"forkee"}
      [] OTHER -> {}

\* The payload has every object its handler reads from, and what it has of
\* repository and sender are objects too.
HasCore(event_type, payload) ==
    /\ \A f \in CoreObjects(event_type) :
          f \in DOMAIN payload.v /\ IsDict(payload.v[f])
    /\ \A f \in {"repository", "sender"} \cap DOMAIN payload.v :
          IsDict(payload.v[f])

\* C29: a webhook of a supported category whose payload has the objects the
\* handler reads from, whatever optional fields it lacks, does not make the
\* handler raise, and the handler writes a record none of whose fields is
\* null.
C29_TotalWithDefaults ==
    \A i \in Requests :
        (/\ req[i].pc # "idle"
         /\ req[i].event_type \in EVENT_HANDLERS
         /\ HasCore(req[i].event_type, req[i].payload))
            => LET res == handle_event(req[i].event_type, req[i].payload) IN
               /\ ~res.raises
               /\ res.writes # <<>>
               /\ \A n \in DOMAIN res.writes :
                     \A f \in DOMAIN res.writes[n].value.v :
                         res.writes[n].value.v[f] # None

\* C30: when send_or_edit starts for a key whose category is enabled, the
\* channel it works in is the one the routing entry names, or the default
\* channel when the entry names none; every call it issues goes to that
\* channel; and when the bot cannot resolve the channel the coroutine ends
\* at once with no call issued, MESSAGE_MAP and the platform untouched.
C30_ChannelResolution ==
    /\ [](\A c \in DOMAIN tasks :
             tasks[c].pc = "no_channel" =>
                 tasks[c].calls = <<>> /\ tasks[c].channel = 0)
    /\ [][/\ (/\ Len(tasks') = Len(tasks) + 1
               /\ RoutingEnabled(Head(queue).handler_name))
                  => LET task == tasks'[Len(tasks')]
                         channel_id == RoutedChannel(Head(queue).handler_name)
                     IN
                     IF channel_id \in Channels
                     THEN /\ task.pc \in {"fetch", "send"}
                          /\ task.channel = channel_id
                     ELSE /\ task.pc = "no_channel"
                          /\ MESSAGE_MAP' = MESSAGE_MAP
                          /\ discord' = discord
           /\ \A c \in DOMAIN tasks :
                 /\ tasks[c].pc = "no_channel" => tasks'[c] = tasks[c]
                 /\ tasks'[c].channel = tasks[c].channel
                 /\ (tasks[c].pc = "send" /\ Len(discord') > Len(discord))
                        => discord'[Len(discord')].channel = tasks[c].channel
          ]_vars

\* One message has gone to the default channel, one to the channel a routing
\* entry names, and a coroutine whose channel the bot cannot see has ended
\* without a call.
C30_Witness ==
    /\ \E c \in DOMAIN tasks :
          /\ tasks[c].pc = "no_channel"
          /\ tasks[c].handler_name = "check_run"
          /\ tasks[c].key \notin DOMAIN MESSAGE_MAP
    /\ \E c \in DOMAIN tasks :
          /\ tasks[c].pc = "sent"
          /\ tasks[c].handler_name = "push"
          /\ discord[tasks[c].new_id].channel = OtherChannel

\* The messages for a key that are on the platform now.
LiveIds(key) == {id \in SentIds(key) : discord[id].live}

\* C31: when nothing was deleted and nothing failed, and a send_or_edit for
\* pull request 42 that found a stored id (the key already had a delivered
\* message when it started) has run to its end, the platform holds at most
\* one live message for the key, also when sethandlerchannel moved the
\* category to another channel in between.
C31_OneLiveAcrossRouting ==
    (/\ budget.deletes = MaxDeletes
     /\ budget.http_errors = MaxFailures
     /\ budget.write_failures = MaxFailures
     /\ \E c \in DOMAIN tasks :
           /\ tasks[c].key = PullRequest42
           /\ tasks[c].message_id # 0
           /\ tasks[c].pc \in {"sent", "edited"})
        => Cardinality(LiveIds(PullRequest42)) <= 1

\* C32: the answer to a webhook is always "OK", 200: a request has status
\* 200 from the moment it is answered and no other status ever, whether its
\* event was handled, had no handler, made its handler raise or could not
\* be saved; and an answered request does nothing more.
C32_AlwaysOK ==
    /\ [](\A i \in Requests :
             /\ req[i].status \in {0, 200}
             /\ req[i].pc = "responded" <=> req[i].status = 200)
    /\ [][\A i \in Requests :
             /\ req[i].pc = "responded" => req'[i] = req[i]
             /\ (req[i].pc # "responded" /\ req'[i].pc = "responded")
                    => req'[i].status = 200
          ]_vars

\* Two requests have been answered 200: one whose handler raised on the
\* payload, one whose record could not be saved.
C32_Witness ==
    \E i, j \in Requests :
        /\ req[i].pc = "responded" /\ req[i].status = 200
        /\ req[i].raised /\ req[i].writes = <<>>
        /\ handle_event(req[i].event_type, req[i].payload).raises
        /\ req[j].pc = "responded" /\ req[j].status = 200
        /\ req[j].raised /\ req[j].writes # <<>>

\* The routing table has no entry for the category, or an entry without an
\* "enabled" field (read from the store directly).
NoRouting(name) ==
    \/ HandlersKey \notin DOMAIN DATA_STORE
    \/ name \notin DOMAIN DATA_STORE[HandlersKey].v
    \/ "enabled" \notin DOMAIN DATA_STORE[HandlersKey].v[name].v

\* C33: a send_or_edit that starts while the category of its key has no
\* routing entry, or an entry without "enabled", ends at its first test: no
\* call is issued, now or later, no channel is resolved, and the step changes
\* neither MESSAGE_MAP nor the platform nor the document.
C33_NoEntryIsDisabled ==
    [][(/\ Len(tasks') = Len(tasks) + 1
        /\ NoRouting(HandlerOf(Head(queue).key)))
           => LET task == tasks'[Len(tasks')] IN
              /\ task.pc = "disabled"
              /\ task.calls = <<>>
              /\ task.channel = 0
              /\ MESSAGE_MAP' = MESSAGE_MAP
              /\ discord' = discord
              /\ file' = file
      ]_vars
    /\ [](\A c \in DOMAIN tasks :
             tasks[c].pc = "disabled" => tasks[c].calls = <<>>)

\* A push coroutine ended as disabled because the table has no push entry,
\* and a pull_request coroutine ended as disabled while its entry, which
\* has a channel, has no "enabled" field.
C33_Witness ==
    /\ HandlersKey \in DOMAIN DATA_STORE
    /\ "push" \notin DOMAIN DATA_STORE[HandlersKey].v
    /\ "pull_request" \in DOMAIN DATA_STORE[HandlersKey].v
    /\ "enabled" \notin DOMAIN DATA_STORE[HandlersKey].v["pull_request"].v
    /\ "channel_id" \in DOMAIN DATA_STORE[HandlersKey].v["pull_request"].v
    /\ \E c, d \in DOMAIN tasks :
          /\ tasks[c].pc = "disabled" /\ HandlerOf(tasks[c].key) = "push"
          /\ tasks[d].pc = "disabled"
          /\ HandlerOf(tasks[d].key) = "pull_request"
    /\ MESSAGE_MAP = NoMap

\* The category names that have a routing entry, read from the store.
RoutedNames ==
    IF HandlersKey \in DOMAIN DATA_STORE
    THEN DOMAIN DATA_STORE[HandlersKey].v ELSE {}

\* C34: a command either names a category that has a routing entry, or
\* changes nothing in memory, on disk or on the run-loop; no step adds or
\* removes a routing entry or the table itself; and while the store has no
\* routing table (as after a start from a missing or unreadable document)
\* no coroutine has issued a call, MESSAGE_MAP is empty and the platform
\* holds no message.
C34_CommandsCreateNoRouting ==
    /\ [][/\ budget'.commands < budget.commands
             => \/ /\ loop'.pc = "assign"
                   /\ loop'.command.handler_name \in RoutedNames
                \/ /\ loop'.command.handler_name \notin RoutedNames
                   /\ UNCHANGED <<DATA_STORE, MESSAGE_MAP, file, data_lock,
                                  req, queue, tasks, loop, discord>>
          /\ RoutedNames' = RoutedNames
          /\ (HandlersKey \in DOMAIN DATA_STORE')
                <=> (HandlersKey \in DOMAIN DATA_STORE)
         ]_vars
    /\ [](HandlersKey \notin DOMAIN DATA_STORE
             => /\ RoutedNames = {}
                /\ \A c \in DOMAIN tasks :
                       tasks[c].pc = "disabled" /\ tasks[c].calls = <<>>
                /\ MESSAGE_MAP = NoMap
                /\ discord = <<>>
                /\ loop.pc = "idle")

\* From an empty store: a command has been given, both events have been
\* answered and their coroutines have run, and there is still no routing
\* table while the records are stored.
C34_Witness ==
    /\ HandlersKey \notin DOMAIN DATA_STORE
    /\ budget.commands = 0
    /\ \A i \in Requests : req[i].pc = "responded"
    /\ queue = <<>>
    /\ Len(tasks) >= 2
    /\ PullRequest42 \in DOMAIN DATA_STORE
    /\ file = JsonDump(DATA_STORE, MESSAGE_MAP)

\* The number of records request i has stored and handed to the run-loop.
Synced(i) ==
    IF req[i].pc = "idle" THEN 0
    ELSE Len(handle_event(req[i].event_type, req[i].payload).writes)
            - Len(req[i].writes)

RECURSIVE SyncedUpTo(_)
SyncedUpTo(n) == IF n = 0 THEN 0 ELSE Synced(n) + SyncedUpTo(n - 1)

\* C35: a coroutine is submitted only by a request thread whose
\* update_data_store for that key has returned, with the record in
\* DATA_STORE; a request leaves save_data either with the document written
\* or answered with the exception caught and nothing submitted, and it
\* submits nothing afterwards.  So there are exactly as many coroutines as
\* records stored and saved, and every submitted or running coroutine finds
\* a record for its key.
C35_RecordPrecedesSync ==
    /\ [][/\ queue' # queue /\ Len(queue') > Len(queue)
             => \E i \in Requests :
                   /\ req[i].pc = "updated"
                   /\ req'[i] # req[i]
                   /\ queue' = Append(queue,
                                      [key |-> Head(req[i].writes).key,
                                       handler_name |->
                                          Head(req[i].writes).handler_name])
                   /\ Head(req[i].writes).key \in DOMAIN DATA_STORE
          /\ \A i \in Requests :
                /\ (req[i].pc = "save" /\ req'[i] # req[i])
                      => \/ /\ req'[i].pc = "dumped"
                            /\ file' = JsonDump(DATA_STORE, MESSAGE_MAP)
                         \/ /\ req'[i].pc = "responded"
                            /\ req'[i].raised
                            /\ req'[i].writes = req[i].writes
                            /\ queue' = queue
                /\ req'[i].pc = "updated" => req[i].pc \in {"dumped", "updated"}
                /\ req[i].pc = "responded" => req'[i] = req[i]
         ]_vars
    /\ [](/\ Len(queue) + Len(tasks) = SyncedUpTo(MaxEvents)
          /\ \A n \in DOMAIN queue : queue[n].key \in DOMAIN DATA_STORE
          /\ \A c \in DOMAIN tasks : tasks[c].key \in DOMAIN DATA_STORE)

\* C35 as stated: an event whose record could not be saved has no
\* coroutine at all.
C35_NoSyncForEvent ==
    \A i \in Requests :
        (req[i].pc = "responded" /\ req[i].raised /\ req[i].writes # <<>>)
            => Synced(i) = 0

\* A push of two commits: the first was stored, saved and submitted, the
\* second could not be saved; the request is answered and no coroutine
\* exists for the second commit although its record is in DATA_STORE.
C35_Witness ==
    \E i \in Requests :
        /\ req[i].pc = "responded" /\ req[i].raised
        /\ Len(req[i].writes) = 1
        /\ Synced(i) = 1
        /\ Head(req[i].writes).key \in DOMAIN DATA_STORE
        /\ \A n \in DOMAIN queue : queue[n].key # Head(req[i].writes).key
        /\ \A c \in DOMAIN tasks : tasks[c].key # Head(req[i].writes).key
        /\ Len(tasks) >= 1

\* C36: the program starts with no record and no entry; every key in
\* MESSAGE_MAP has a record in DATA_STORE; and a step changes MESSAGE_MAP
\* only as the assignment of a coroutine whose last call was a send that
\* succeeded: it sets the coroutine's key to the id that send returned, that
\* message carries the key, and no other entry changes.  No step of a request
\* thread or of a command changes it.
C36_MappedKeysHaveRecords ==
    /\ DOMAIN DATA_STORE \subseteq {HandlersKey}
    /\ MESSAGE_MAP = NoMap
    /\ [](DOMAIN MESSAGE_MAP \subseteq DOMAIN DATA_STORE \ {HandlersKey})
    /\ [][MESSAGE_MAP' # MESSAGE_MAP
             => /\ loop.pc = "update"
                /\ loop.task \in DOMAIN tasks
                /\ LET task == tasks[loop.task] IN
                   /\ task.pc = "update_message_map"
                   /\ task.calls[Len(task.calls)] = "send"
                   /\ task.new_id \in DOMAIN discord
                   /\ discord[task.new_id].embed.key = task.key
                   /\ MESSAGE_MAP' = Put(MESSAGE_MAP, task.key, task.new_id)
                /\ req' = req
                /\ DATA_STORE' = DATA_STORE
                /\ ~InCommand
         ]_vars

\* Two keys have entries and records, a command has been carried out and
\* every request has been answered.
C36_Witness ==
    /\ Cardinality(DOMAIN MESSAGE_MAP) = 2
    /\ DOMAIN MESSAGE_MAP \subseteq DOMAIN DATA_STORE
    /\ budget.commands = 0
    /\ \A i \in Requests : req[i].pc = "responded"
    /\ loop.pc = "idle"

\* C37: a coroutine that gets past the enabled test renders the record that
\* DATA_STORE holds for its key at the step in which it starts; the
\* rendering never changes afterwards, and every message sent or edited
\* carries the rendering of the coroutine that made the call.
C37_RendersStoredRecord ==
    [][/\ Len(tasks') = Len(tasks) + 1
          => LET task == tasks'[Len(tasks')] IN
             /\ task.key = Head(queue).key
             /\ task.pc # "disabled"
                   => /\ task.key \in DOMAIN DATA_STORE
                      /\ task.embed.key = task.key
                      /\ task.embed.data = DATA_STORE[task.key]
       /\ \A c \in DOMAIN tasks : tasks'[c].embed = tasks[c].embed
       /\ \A id \in DOMAIN discord' :
             (id \notin DOMAIN discord \/ discord'[id].embed # discord[id].embed)
                => \E c \in DOMAIN tasks :
                      /\ tasks'[c] # tasks[c]
                      /\ discord'[id].embed = tasks[c].embed
      ]_vars

\* Two different pull_request events for number 42 were stored before either
\* coroutine started: the first coroutine sent and the second edited, both
\* with the record that was stored last, and the message carries it.
C37_Witness ==
    /\ Len(tasks) = 2
    /\ \A i \in Requests :
          /\ req[i].pc = "responded"
          /\ req[i].event_type = "pull_request"
          /\ Synced(i) = 1
    /\ handle_event(req[1].event_type, req[1].payload).writes[1].value #
          handle_event(req[2].event_type, req[2].payload).writes[1].value
    /\ tasks[1].key = PullRequest42 /\ tasks[2].key = PullRequest42
    /\ tasks[1].pc = "sent" /\ tasks[1].calls = <<"send">>
    /\ tasks[2].pc = "edited" /\ tasks[2].calls = <<"fetch", "edit">>
    /\ tasks[1].embed = tasks[2].embed
    /\ tasks[1].embed.data = DATA_STORE[PullRequest42]
    /\ Len(discord) = 1
    /\ discord[1].embed.data = DATA_STORE[PullRequest42]

\* No thread is inside update_data_store or update_message_map: none is
\* between the assignment such a call makes and the end of its save_data.
NoUpdateCall ==
    /\ \A i \in Requests : req[i].pc \notin {"save", "dumped"}
    /\ loop.pc \notin {"save", "dumped"}

\* C38: whenever no update_data_store or update_message_map call is in
\* progress and no write of the document has failed, what load_data reads
\* from the document is the in-memory DATA_STORE and MESSAGE_MAP.
C38_QuiescentDocument ==
    (NoUpdateCall /\ budget.write_failures = MaxFailures)
        => /\ Reloaded.DATA_STORE = DATA_STORE
           /\ Reloaded.MESSAGE_MAP = MESSAGE_MAP

\* The step is one of coroutine c: it starts c, moves c on, or is part of
\* the update_message_map call c is making.
CoroutineStep(c) ==
    \/ c \notin DOMAIN tasks
    \/ tasks'[c] # tasks[c]
    \/ loop.task = c /\ loop' # loop

\* C39: a step of the send_or_edit coroutine for key k, whatever the outcome
\* of the call it completes, leaves DATA_STORE as it is and leaves every
\* MESSAGE_MAP entry of another key as it is: no such entry is added,
\* removed or changed.
C39_SyncIsFrame ==
    [][\A c \in DOMAIN tasks' :
          CoroutineStep(c)
             => LET k == tasks'[c].key IN
                /\ DATA_STORE' = DATA_STORE
                /\ DOMAIN MESSAGE_MAP' \ {k} = DOMAIN MESSAGE_MAP \ {k}
                /\ \A other \in DOMAIN MESSAGE_MAP \ {k} :
                       MESSAGE_MAP'[other] = MESSAGE_MAP[other]
      ]_vars

\* Two coroutines for different keys ran interleaved: the one started first
\* had its send answered second, and each key has the id of its own
\* message.
C39_Witness ==
    /\ Len(tasks) = 2
    /\ tasks[1].key # tasks[2].key
    /\ tasks[1].pc = "sent" /\ tasks[2].pc = "sent"
    /\ tasks[1].new_id = 2 /\ tasks[2].new_id = 1
    /\ DOMAIN MESSAGE_MAP = {tasks[1].key, tasks[2].key}
    /\ MESSAGE_MAP[tasks[1].key] = 2
    /\ MESSAGE_MAP[tasks[2].key] = 1
    /\ discord[1].embed.key = tasks[2].key
    /\ discord[2].embed.key = tasks[1].key

====
